---- MODULE Spec2Model ----
(***************************************************************************)
(* Live trip tracking, geofencing and emergency dispatch of the Wassel     *)
(* client: services/realTimeTracking.ts (class RealTimeTrackingService)    *)
(* and services/twilioService.ts (twilioService).                          *)
(*                                                                         *)
(* Every asynchronous method is cut at its await points: one action is the *)
(* collaborator call completing with one of its outcomes, followed by the  *)
(* synchronous code up to the next await.  A PostgREST query of the store  *)
(* client resolves to {data, error}; auth.getUser, fetch, dynamic import   *)
(* and the push sender may also reject.                                    *)
(***************************************************************************)
EXTENDS Integers, Sequences, FiniteSets, TLC

\* ---------------------------------------------------------------- bounds
MaxSOS == 2
MaxContacts == 3
MaxBookings == 2
MaxTicks == 3
\* MaxOpens bounds the subscribe calls, MaxWatches the startLocationTracking
\* calls; each opens at most one channel, registers at most one watch
MaxOpens == 3
MaxCancels == 2
MaxTeardowns == 1
MaxWatches == 2
MaxMonitorCancels == 2
MaxStops == 2
MaxFixes == 2
MaxUpdates == 5

\* ------------------------------------------------------------ input sets
NULL == "null"
NoRow == [kind |-> "none"]
Trips == {"t1"}
Phones == {"ph1", "ph2"}
Users == {"u1", "u2"}
Driver == "d1"

VARIABLES
  \* sendEmergencySOS / notifyEmergencyContacts (one invocation at a time)
  sosPc,        \* next collaborator call of the running invocation
  sosRet,       \* value returned by the last finished invocation
  sosCount,     \* invocations started
  sosTrip,      \* tripId argument
  sosUser,      \* outcome of auth.getUser
  sosInsert,    \* outcome of the emergency_alerts insert
  sosFailed,    \* fan-out steps of this invocation that failed
  sosTried,     \* fan-out lookups/calls of this invocation that were issued
  alerts,       \* table emergency_alerts, in insertion order
  notifs,       \* notification collaborator calls of this invocation
  tripRow,      \* row returned by the trips query
  participants, \* local array of notifyEmergencyContacts
  pushIdx,      \* position of the for-of loop over participants
  \* twilioService.sendEmergencySMS
  smsPc, smsMock, smsContacts, smsIdx, smsSent, smsFailed, smsLog, smsRet,
  \* monitorPickupZone (one watch)
  monTimer,     \* the setInterval timer: "none", "active" or "cleared"
  ticksIssued,  \* poll callbacks started (store queries issued)
  tickState,    \* per tick: "unissued", "pending" or the store response
  arrivals,     \* ticks whose callback invoked onArrival, in call order
  lateTicks,    \* ticks issued after the first onArrival call
  monCancels,   \* calls of the cancel function returned by monitorPickupZone
  \* channel registry and location stream of RealTimeTrackingService
  channels,     \* this.channels: key -> channel id (0 = key absent)
  transport,    \* channels opened at the realtime client, by id
  handles,      \* keys for which a cancel function has been handed out
  pending,      \* per channel id: cancel calls awaiting removeChannel
  cancelCount,  \* cancel invocations so far
  uaPc, uaPos, uaWait, uaCount,  \* the running unsubscribeAll
  uaSnapshot,   \* this.channels as it was when unsubscribeAll was called
  warnings,     \* keys of the 'Already subscribed' warnings, in log order
  removeCalls,  \* per channel id: removeChannel calls received
  wanted,       \* keys subscribed to with no cancel issued since
  locationWatchId, currentTripId, watches, watchCount,
  watchTrip,    \* per watch id: the tripId its success callback closes over
  startCalls,   \* startLocationTracking calls so far
  startRet,     \* value returned by the last startLocationTracking call
  stopCalls,    \* stopLocationTracking calls so far
  clearWatchLog, \* watch ids passed to geolocation.clearWatch, in call order
  \* watchPosition callback and broadcastLocation
  fixes,        \* fixes delivered by the position source (a fix is its number)
  delivered,    \* fixes passed to onUpdate, in call order
  pub,          \* per fix: the broadcastLocation call started for it
  writes,       \* fixes whose live_locations upsert was issued, in issue order
  applied,      \* upserts applied by the store, in the order it applied them
  \* updateTripStatus (one invocation at a time) and the trips row of the trip
  tripStatus,   \* trips.status
  utsPc,        \* "idle", or "update" while the store update is awaited
  utsReq,       \* status argument of the last invocation
  utsRet,       \* value returned by the last finished invocation
  utsCount,     \* invocations started
  utsPrev,      \* trips.status before the last write that changed it
  utsStore,     \* outcome of the store update of the last invocation
  utsWrites,    \* store updates issued so far
  statusLog,    \* statuses written by the updates that succeeded, in order
  \* isWithinGeofence / calculateETA (pure functions)
  geoCall,      \* the last call with its arguments and result, if any
  \* live_locations change feed: the postgres_changes handlers
  liveRows,     \* <<trip, user>> -> version of the row, 0 when absent
  storeVer,     \* number of changes the store has applied
  changeLog,    \* the changes, with the subscriptions joined at that moment
  driverCalls,  \* payloads handed to the driver-location onUpdate, in order
  requeries,    \* the re-queries started by the passengers handler
  snapshots,    \* row sets handed to the passengers onUpdate, in order
  \* debounce / throttle (one debounced and one throttled function)
  now,          \* the clock, in units of time
  dbTimeout,    \* debounce: time at which the pending timer is due, 0 for null
  dbArgs,       \* debounce: the arguments the pending `later` closes over
  dbLast,       \* debounce: time and arguments of the last call
  dbCalls,      \* debounce: invocations of func, with time and arguments
  dbCount,      \* debounce: number of calls made
  inThrottle,   \* throttle: the flag
  thTimer,      \* throttle: time at which the pending reset is due, 0 for none
  thLog,        \* throttle: the calls made, with time, arguments and the flag
  thCalls,      \* throttle: invocations of func, with time and arguments
  \* MockDataStore.createBooking
  mockTrips,    \* trip id -> available_seats of the trip
  mockBookings, \* this.bookings: id, trip_id and seats_requested of each
  nextBookingId,
  cbPending,    \* calls suspended at `await this.getTripById(tripId)`
  cbLog         \* the calls that finished, with their outcome

sosVars == <<sosPc, sosRet, sosCount, sosTrip, sosUser, sosInsert, sosFailed,
             sosTried, alerts, notifs, tripRow, participants, pushIdx>>
smsVars == <<smsPc, smsMock, smsContacts, smsIdx, smsSent, smsFailed, smsLog,
             smsRet>>
monVars == <<monTimer, ticksIssued, tickState, arrivals, lateTicks,
             monCancels>>
regVars == <<channels, transport, handles, pending, cancelCount, uaPc, uaPos,
             uaWait, uaCount, uaSnapshot, warnings, removeCalls, wanted>>
locVars == <<locationWatchId, currentTripId, watches, watchCount, watchTrip,
             startCalls, startRet, stopCalls, clearWatchLog>>
pubVars == <<fixes, delivered, pub, writes, applied>>
staVars == <<tripStatus, utsPc, utsReq, utsRet, utsCount, utsPrev, utsStore,
             utsWrites, statusLog>>
geoVars == <<geoCall>>
feedVars == <<liveRows, storeVer, changeLog, driverCalls, requeries, snapshots>>
utilVars ==
  <<now, dbTimeout, dbArgs, dbLast, dbCalls, dbCount, inThrottle, thTimer,
    thLog, thCalls>>
mockVars == <<mockTrips, mockBookings, nextBookingId, cbPending, cbLog>>
vars == <<sosVars, smsVars, monVars, regVars, locVars, pubVars, staVars,
          geoVars, feedVars, utilVars, mockVars>>

\* ------------------------------------------------------------- helpers
RECURSIVE SeqsUpTo(_, _)
SeqsUpTo(S, n) ==
  IF n = 0 THEN {<<>>}
  ELSE LET shorter == SeqsUpTo(S, n - 1)
       IN shorter \cup {Append(s, x) : s \in {t \in shorter : Len(t) = n - 1}, x \in S}

RECURSIVE FilterBoolean(_)
FilterBoolean(s) ==
  IF s = <<>> THEN <<>>
  ELSE IF Head(s) = NULL THEN FilterBoolean(Tail(s))
       ELSE <<Head(s)>> \o FilterBoolean(Tail(s))

\* --------------------------------------------- twilioService (SMS fan-out)
SmsOutcomes == {"ok", "notok", "raise"}

\* sendSMS: without credentials (or with twilio disabled) the mock path
\* reports success; otherwise success iff fetch resolved with response.ok.
SendSMS(mock, outcome) == mock \/ outcome = "ok"

InitSMS ==
  /\ smsPc = "idle" /\ smsMock = FALSE /\ smsContacts = <<>> /\ smsIdx = 0
  /\ smsSent = 0 /\ smsFailed = 0 /\ smsLog = <<>> /\ smsRet = [sent |-> 0, failed |-> 0]

\* entry of sendEmergencySMS: sent = 0, failed = 0, loop starts
EnterSMS(contacts, mock) ==
  /\ smsPc' = "loop" /\ smsMock' = mock /\ smsContacts' = contacts
  /\ smsIdx' = 1 /\ smsSent' = 0 /\ smsFailed' = 0 /\ smsLog' = <<>>
  /\ smsRet' = [sent |-> 0, failed |-> 0]

SendEmergencySMSCall(contacts, mock) ==
  /\ sosPc = "idle" /\ smsPc \in {"idle", "returned"}
  /\ EnterSMS(contacts, mock)
  /\ UNCHANGED <<sosVars, monVars, regVars, pubVars, staVars, geoVars, feedVars, utilVars, locVars, mockVars>>

\* one iteration of the for-of loop:
\*   const result = await this.sendSMS(contact.phone, message);
\*   if (result.success) sent++; else failed++;
SmsIterationBreaks(outcome) ==
  /\ smsPc = "loop" /\ smsIdx <= Len(smsContacts)
  /\ LET ok == SendSMS(smsMock, outcome)
     IN /\ smsLog' = Append(smsLog, [phone |-> smsContacts[smsIdx], success |-> ok])
        /\ smsSent' = IF ok THEN smsSent + 1 ELSE smsSent
        /\ smsFailed' = IF ok THEN smsFailed ELSE smsFailed + 1
        /\ smsIdx' = IF ok THEN smsIdx + 1 ELSE Len(smsContacts) + 1
  /\ UNCHANGED <<smsPc, smsMock, smsContacts, smsRet>>

SmsIteration(outcome) ==
  /\ smsPc = "loop" /\ smsIdx <= Len(smsContacts)
  /\ LET ok == SendSMS(smsMock, outcome)
     IN /\ smsLog' = Append(smsLog, [phone |-> smsContacts[smsIdx], success |-> ok])
        /\ smsSent' = IF ok THEN smsSent + 1 ELSE smsSent
        /\ smsFailed' = IF ok THEN smsFailed ELSE smsFailed + 1
  /\ smsIdx' = smsIdx + 1
  /\ UNCHANGED <<smsPc, smsMock, smsContacts, smsRet>>

SendEmergencySMSStep(outcome) ==
  /\ sosPc = "idle"
  /\ SmsIteration(outcome)
  /\ UNCHANGED <<sosVars, monVars, regVars, pubVars, staVars, geoVars, feedVars, utilVars, locVars, mockVars>>

\* return { sent, failed }
SendEmergencySMSReturn ==
  /\ smsPc = "loop" /\ smsIdx > Len(smsContacts)
  /\ smsPc' = "returned"
  /\ smsRet' = [sent |-> smsSent, failed |-> smsFailed]
  /\ UNCHANGED <<smsMock, smsContacts, smsIdx, smsSent, smsFailed, smsLog, sosVars,
                 monVars, regVars, pubVars, staVars, geoVars, feedVars, utilVars, locVars, mockVars>>

\* ------------------------------------------------------- sendEmergencySOS
InitSOS ==
  /\ sosPc = "idle" /\ sosRet = "pending" /\ sosCount = 0 /\ sosTrip = NULL
  /\ sosUser = "pending" /\ sosInsert = "pending" /\ sosFailed = {} /\ sosTried = {}
  /\ alerts = <<>> /\ notifs = <<>> /\ tripRow = NoRow
  /\ participants = <<>> /\ pushIdx = 0

\* catch block of sendEmergencySOS: return false
SOSCatch ==
  /\ sosPc' = "done" /\ sosRet' = "false"

\* notifyEmergencyContacts returned (normally or through its catch): return true
SOSNotifyReturned ==
  /\ sosPc' = "done" /\ sosRet' = "true"

SendEmergencySOS(trip) ==
  /\ sosPc \in {"idle", "done"} /\ sosCount < MaxSOS
  /\ sosPc' = "getUser" /\ sosCount' = sosCount + 1 /\ sosTrip' = trip
  /\ sosRet' = "pending" /\ sosUser' = "pending" /\ sosInsert' = "pending"
  /\ sosFailed' = {} /\ sosTried' = {} /\ notifs' = <<>> /\ tripRow' = NoRow
  /\ participants' = <<>> /\ pushIdx' = 0
  /\ smsPc' = "idle" /\ smsMock' = FALSE /\ smsContacts' = <<>> /\ smsIdx' = 0
  /\ smsSent' = 0 /\ smsFailed' = 0 /\ smsLog' = <<>> /\ smsRet' = [sent |-> 0, failed |-> 0]
  /\ UNCHANGED <<alerts, monVars, regVars, pubVars, staVars, geoVars, feedVars, utilVars, locVars, mockVars>>

UserOutcomes == Users \cup {NULL, "raise"}

\* await supabase.auth.getUser(); if (!user) throw
SOSGetUserAnonymous(res) ==
  /\ sosPc = "getUser"
  /\ sosUser' = res
  /\ IF res # "raise" THEN sosPc' = "insert" /\ sosRet' = sosRet ELSE SOSCatch
  /\ UNCHANGED <<sosCount, sosTrip, sosInsert, sosFailed, sosTried, alerts,
                 notifs, tripRow, participants, pushIdx, smsVars,
                 monVars, regVars, pubVars, staVars, geoVars, feedVars, utilVars, locVars, mockVars>>

SOSGetUser(res) ==
  /\ sosPc = "getUser"
  /\ sosUser' = res
  /\ IF res \in Users THEN sosPc' = "insert" /\ sosRet' = sosRet ELSE SOSCatch
  /\ UNCHANGED <<sosCount, sosTrip, sosInsert, sosFailed, sosTried, alerts,
                 notifs, tripRow, participants, pushIdx, smsVars,
                 monVars, regVars, pubVars, staVars, geoVars, feedVars, utilVars, locVars, mockVars>>

NewAlert == [trip_id |-> sosTrip, user_id |-> sosUser, status |-> "active"]

InsertOutcomes == {"ok", "error"}

\* await supabase.from('emergency_alerts').insert(...); if (error) throw error
SOSInsertIgnoresError(res) ==
  /\ sosPc = "insert"
  /\ sosInsert' = res
  /\ alerts' = IF res = "ok" THEN Append(alerts, NewAlert) ELSE alerts
  /\ sosPc' = "profile" /\ sosRet' = sosRet
  /\ UNCHANGED <<sosCount, sosTrip, sosUser, sosFailed, sosTried, notifs,
                 tripRow, participants, pushIdx, smsVars,
                 monVars, regVars, pubVars, staVars, geoVars, feedVars, utilVars, locVars, mockVars>>

SOSInsertOverwrites(res) ==
  /\ sosPc = "insert"
  /\ sosInsert' = res
  /\ alerts' = IF res = "ok"
               THEN (IF alerts = <<>> THEN <<NewAlert>>
                     ELSE [alerts EXCEPT ![Len(alerts)] = NewAlert])
               ELSE alerts
  /\ IF res = "ok" THEN sosPc' = "profile" /\ sosRet' = sosRet ELSE SOSCatch
  /\ UNCHANGED <<sosCount, sosTrip, sosUser, sosFailed, sosTried, notifs,
                 tripRow, participants, pushIdx, smsVars,
                 monVars, regVars, pubVars, staVars, geoVars, feedVars, utilVars, locVars, mockVars>>

SOSInsert(res) ==
  /\ sosPc = "insert"
  /\ sosInsert' = res
  /\ alerts' = IF res = "ok" THEN Append(alerts, NewAlert) ELSE alerts
  /\ IF res = "ok" THEN sosPc' = "profile" /\ sosRet' = sosRet ELSE SOSCatch
  /\ UNCHANGED <<sosCount, sosTrip, sosUser, sosFailed, sosTried, notifs,
                 tripRow, participants, pushIdx, smsVars,
                 monVars, regVars, pubVars, staVars, geoVars, feedVars, utilVars, locVars, mockVars>>

\* ------------------------------------------------ notifyEmergencyContacts
ContactLists == SeqsUpTo(Phones, MaxContacts)
ProfileOutcomes ==
  {[kind |-> "missing"], [kind |-> "error"]}
    \cup {[kind |-> "row", emergency_contacts |-> c] : c \in ContactLists}

\* await supabase.from('profiles')...single(); if (!profile) return;
\* then the two dynamic imports, and the SMS branch when contacts exist
SOSProfileThenAlwaysSMS(res, imp, mock) ==
  /\ sosPc = "profile"
  /\ sosTried' = sosTried \cup {"profile"}
  /\ IF res.kind # "row"
     THEN /\ sosFailed' = sosFailed \cup {"profile"}
          /\ SOSNotifyReturned
          /\ UNCHANGED smsVars
     ELSE IF imp = "raise"
     THEN /\ sosFailed' = sosFailed \cup {"import"}
          /\ SOSNotifyReturned
          /\ UNCHANGED smsVars
     ELSE /\ sosFailed' = sosFailed
          /\ sosPc' = "sms" /\ sosRet' = sosRet
          /\ EnterSMS(res.emergency_contacts, mock)
  /\ UNCHANGED <<sosCount, sosTrip, sosUser, sosInsert, alerts, notifs, tripRow,
                 participants, pushIdx,
                 monVars, regVars, pubVars, staVars, geoVars, feedVars, utilVars, locVars, mockVars>>

SOSProfile(res, imp, mock) ==
  /\ sosPc = "profile"
  /\ sosTried' = sosTried \cup {"profile"}
  /\ IF res.kind # "row"
     THEN /\ sosFailed' = sosFailed \cup {"profile"}
          /\ SOSNotifyReturned
          /\ UNCHANGED smsVars
     ELSE IF imp = "raise"
     THEN /\ sosFailed' = sosFailed \cup {"import"}
          /\ SOSNotifyReturned
          /\ UNCHANGED smsVars
     ELSE /\ sosFailed' = sosFailed
          /\ sosRet' = sosRet
          /\ IF Len(res.emergency_contacts) > 0
             THEN sosPc' = "sms" /\ EnterSMS(res.emergency_contacts, mock)
             ELSE sosPc' = "trip" /\ UNCHANGED smsVars
  /\ UNCHANGED <<sosCount, sosTrip, sosUser, sosInsert, alerts, notifs, tripRow,
                 participants, pushIdx,
                 monVars, regVars, pubVars, staVars, geoVars, feedVars, utilVars, locVars, mockVars>>

\* sendEmergencySMS running inside the SOS fan-out: each sendSMS is a
\* notification collaborator call
SOSSmsStep(outcome) ==
  /\ sosPc = "sms"
  /\ SmsIteration(outcome)
  /\ notifs' = Append(notifs, <<"sms", smsContacts[smsIdx]>>)
  /\ sosFailed' = IF SendSMS(smsMock, outcome) THEN sosFailed
                  ELSE sosFailed \cup {"sms"}
  /\ sosTried' = sosTried \cup {"sms"}
  /\ UNCHANGED <<sosPc, sosRet, sosCount, sosTrip, sosUser, sosInsert, alerts,
                 tripRow, participants, pushIdx,
                 monVars, regVars, pubVars, staVars, geoVars, feedVars, utilVars, locVars, mockVars>>

\* await twilioService.sendEmergencySMS(...) resolves, its result is dropped;
\* the trips query follows
SOSSmsReturned ==
  /\ sosPc = "sms" /\ smsPc = "returned"
  /\ sosPc' = "trip"
  /\ smsPc' = "idle" /\ smsMock' = FALSE /\ smsContacts' = <<>> /\ smsIdx' = 0
  /\ smsSent' = 0 /\ smsFailed' = 0 /\ smsLog' = <<>>
  /\ smsRet' = [sent |-> 0, failed |-> 0]
  /\ UNCHANGED <<sosRet, sosCount, sosTrip, sosUser, sosInsert, sosFailed,
                 sosTried, alerts, notifs, tripRow, participants, pushIdx,
                 monVars, regVars, pubVars, staVars, geoVars, feedVars, utilVars, locVars, mockVars>>

BookingLists == SeqsUpTo(Users \cup {NULL}, MaxBookings)
TripRows == [kind : {"row"}, driver_id : {Driver, NULL}, bookings : BookingLists]
TripOutcomes == {[kind |-> "missing"], [kind |-> "error"]} \cup TripRows

\* [trip.driver_id, ...bookings.map(b => b.passenger_id)].filter(Boolean)
Participants(row) == FilterBoolean(<<row.driver_id>> \o row.bookings)

\* await supabase.from('trips')...single(); if (trip) { participants = ... }
SOSTrip(res) ==
  /\ sosPc = "trip"
  /\ sosTried' = sosTried \cup {"trip"}
  /\ tripRow' = res
  /\ IF res.kind # "row"
     THEN /\ sosFailed' = sosFailed \cup {"trip"}
          /\ participants' = <<>> /\ pushIdx' = 0
          /\ sosPc' = "fetch"
     ELSE /\ sosFailed' = sosFailed
          /\ participants' = Participants(res) /\ pushIdx' = 1
          /\ sosPc' = IF Participants(res) = <<>> THEN "fetch" ELSE "push"
  /\ UNCHANGED <<sosRet, sosCount, sosTrip, sosUser, sosInsert, alerts, notifs,
                 smsVars,
                 monVars, regVars, pubVars, staVars, geoVars, feedVars, utilVars, locVars, mockVars>>

PushOutcomes == {"ok", "fail", "raise"}

\* one iteration of: for (const participantId of participants)
\*                     await pushNotificationService.sendPushNotification(...)
\* a rejected send leaves the loop for the catch of notifyEmergencyContacts
SOSPushPropagates(res) ==
  /\ sosPc = "push" /\ pushIdx <= Len(participants)
  /\ notifs' = Append(notifs, <<"push", participants[pushIdx]>>)
  /\ sosTried' = sosTried \cup {"push"}
  /\ sosFailed' = IF res = "ok" THEN sosFailed ELSE sosFailed \cup {"push"}
  /\ IF res = "raise"
     THEN SOSCatch /\ pushIdx' = pushIdx
     ELSE /\ pushIdx' = pushIdx + 1
          /\ sosPc' = IF pushIdx = Len(participants) THEN "fetch" ELSE "push"
          /\ sosRet' = sosRet
  /\ UNCHANGED <<sosCount, sosTrip, sosUser, sosInsert, alerts, tripRow,
                 participants, smsVars,
                 monVars, regVars, pubVars, staVars, geoVars, feedVars, utilVars, locVars, mockVars>>

SOSPush(res) ==
  /\ sosPc = "push" /\ pushIdx <= Len(participants)
  /\ notifs' = Append(notifs, <<"push", participants[pushIdx]>>)
  /\ sosTried' = sosTried \cup {"push"}
  /\ sosFailed' = IF res = "ok" THEN sosFailed ELSE sosFailed \cup {"push"}
  /\ IF res = "raise"
     THEN SOSNotifyReturned /\ pushIdx' = pushIdx
     ELSE /\ pushIdx' = pushIdx + 1
          /\ sosPc' = IF pushIdx = Len(participants) THEN "fetch" ELSE "push"
          /\ sosRet' = sosRet
  /\ UNCHANGED <<sosCount, sosTrip, sosUser, sosInsert, alerts, tripRow,
                 participants, smsVars,
                 monVars, regVars, pubVars, staVars, geoVars, feedVars, utilVars, locVars, mockVars>>

FetchOutcomes == {"ok", "raise"}

\* try { await fetch('/api/emergency/notify', ...) } catch { log }; return
SOSFetch(res) ==
  /\ sosPc = "fetch"
  /\ notifs' = Append(notifs, <<"fetch", "emergency">>)
  /\ sosTried' = sosTried \cup {"fetch"}
  /\ sosFailed' = IF res = "ok" THEN sosFailed ELSE sosFailed \cup {"fetch"}
  /\ SOSNotifyReturned
  /\ UNCHANGED <<sosCount, sosTrip, sosUser, sosInsert, alerts, tripRow,
                 participants, pushIdx, smsVars,
                 monVars, regVars, pubVars, staVars, geoVars, feedVars, utilVars, locVars, mockVars>>

NextSOS ==
  \/ \E t \in Trips : SendEmergencySOS(t)
  \/ \E r \in UserOutcomes : SOSGetUser(r)
  \/ \E r \in InsertOutcomes : SOSInsert(r)
  \/ \E r \in ProfileOutcomes, i \in {"ok", "raise"}, m \in BOOLEAN : SOSProfile(r, i, m)
  \/ \E o \in SmsOutcomes : SOSSmsStep(o)
  \/ SendEmergencySMSReturn
  \/ SOSSmsReturned
  \/ \E r \in TripOutcomes : SOSTrip(r)
  \/ \E r \in PushOutcomes : SOSPush(r)
  \/ \E r \in FetchOutcomes : SOSFetch(r)

NextSMS ==
  \/ \E c \in ContactLists, m \in BOOLEAN : SendEmergencySMSCall(c, m)
  \/ \E o \in SmsOutcomes : SendEmergencySMSStep(o)
  \/ SendEmergencySMSReturn

\* ------------------------------------------------------ monitorPickupZone
\* Coordinates are taken on a grid of latitudes and longitudes whose
\* haversine terms are exact fractions: 4 sin^2(d/2) and 2 cos(lat) are
\* integers, so a of the formula is a number of sixteenths.
Lats == {-60, 0, 60}
Lngs == {0, 90, 180}
GeoPoints == [lat : Lats, lng : Lngs]

\* Math.sin(d / 2) * Math.sin(d / 2), times 4, for a difference of d degrees
SinHalfSq4(d) ==
  CASE d = 0 -> 0
    [] d \in {60, -60} -> 1
    [] d \in {90, -90} -> 2
    [] d \in {120, -120} -> 3
    [] d \in {180, -180} -> 4

\* Math.cos(lat), times 2
Cos2(lat) == CASE lat = 0 -> 2 [] lat \in {60, -60} -> 1

\* a = sin^2(dphi/2) + cos(phi1) cos(phi2) sin^2(dlambda/2), times 16
HaversineA16Northward(p, q) ==
  4 * (IF q.lat >= p.lat THEN SinHalfSq4(q.lat - p.lat) ELSE 0)
    + Cos2(p.lat) * Cos2(q.lat) * SinHalfSq4(q.lng - p.lng)

HaversineA16(p, q) ==
  4 * SinHalfSq4(q.lat - p.lat)
    + Cos2(p.lat) * Cos2(q.lat) * SinHalfSq4(q.lng - p.lng)

\* R * 2 atan2(sqrt(a), sqrt(1 - a)) with R = 6371e3, to the metre, for
\* a = 0/16, 1/16, ..., 16/16
ArcMetres ==
  <<0, 3219652, 4604540, 5706280, 6671696, 7558552, 8397717, 9209080,
    10007543, 10806007, 11617369, 12456535, 13343391, 14308806, 15410547,
    16795435, 20015087>>

\* const distance = R * c, in metres
Dist(a, b) == ArcMetres[HaversineA16(a, b) + 1]

\* return distance <= radiusMeters
IsWithinGeofenceStrict(location, center, radius) ==
  Dist(location, center) < radius

IsWithinGeofence(location, center, radius) == Dist(location, center) <= radius

\* the monitor watches the pickup point with the default radius; the newest
\* sample is at the pickup point or at one of two other grid points
PickupLocation == [lat |-> 0, lng |-> 0]
RadiusMeters == 100
Coords ==
  {PickupLocation, [lat |-> 0, lng |-> 90], [lat |-> 60, lng |-> 0]}

\* { data } of the newest-sample query: an error or an empty table give
\* data = null, a row may have no coordinates
TickResults ==
  {[kind |-> "error"], [kind |-> "none"], [kind |-> "nocoords"]}
    \cup {[kind |-> "row", coordinates |-> c] : c \in Coords}

Unissued == [kind |-> "unissued"]
Pending == [kind |-> "pending"]

InitMonitor ==
  /\ monTimer = "none" /\ ticksIssued = 0
  /\ tickState = [t \in 1..MaxTicks |-> Unissued]
  /\ arrivals = <<>> /\ lateTicks = {} /\ monCancels = 0

\* const intervalId = setInterval(async () => {...}, 5000); return cancelFn
MonitorPickupZone ==
  /\ monTimer = "none"
  /\ monTimer' = "active"
  /\ UNCHANGED <<ticksIssued, tickState, arrivals, lateTicks, monCancels,
                 sosVars, smsVars, regVars, pubVars, staVars, geoVars, feedVars, utilVars, locVars, mockVars>>

\* the timer fires: the callback starts and issues the newest-sample query
MonitorTick ==
  /\ monTimer = "active" /\ ticksIssued < MaxTicks
  /\ ticksIssued' = ticksIssued + 1
  /\ tickState' = [tickState EXCEPT ![ticksIssued + 1] = Pending]
  /\ lateTicks' = IF arrivals # <<>> THEN lateTicks \cup {ticksIssued + 1}
                  ELSE lateTicks
  /\ UNCHANGED <<monTimer, arrivals, monCancels,
                 sosVars, smsVars, regVars, pubVars, staVars, geoVars, feedVars, utilVars, locVars, mockVars>>

Arrived(res) ==
  /\ res.kind = "row"
  /\ IsWithinGeofence(res.coordinates, PickupLocation, RadiusMeters)

\* the query of tick t resolves:
\*   if (data && data.coordinates) { if (isWithin) { onArrival(); clearInterval } }
MonitorTickResultStopsOnMiss(t, res) ==
  /\ tickState[t] = Pending
  /\ tickState' = [tickState EXCEPT ![t] = res]
  /\ arrivals' = IF Arrived(res) THEN Append(arrivals, t) ELSE arrivals
  /\ monTimer' = IF Arrived(res) \/ res.kind # "row" THEN "cleared" ELSE monTimer
  /\ UNCHANGED <<ticksIssued, lateTicks, monCancels,
                 sosVars, smsVars, regVars, pubVars, staVars, geoVars, feedVars, utilVars, locVars, mockVars>>

MonitorTickResultStopsOutside(t, res) ==
  /\ tickState[t] = Pending
  /\ tickState' = [tickState EXCEPT ![t] = res]
  /\ arrivals' = IF Arrived(res) THEN Append(arrivals, t) ELSE arrivals
  /\ monTimer' = IF res.kind = "row" THEN "cleared" ELSE monTimer
  /\ UNCHANGED <<ticksIssued, lateTicks, monCancels,
                 sosVars, smsVars, regVars, pubVars, staVars, geoVars, feedVars, utilVars, locVars, mockVars>>

MonitorTickResult(t, res) ==
  /\ tickState[t] = Pending
  /\ tickState' = [tickState EXCEPT ![t] = res]
  /\ IF Arrived(res)
     THEN arrivals' = Append(arrivals, t) /\ monTimer' = "cleared"
     ELSE UNCHANGED <<arrivals, monTimer>>
  /\ UNCHANGED <<ticksIssued, lateTicks, monCancels,
                 sosVars, smsVars, regVars, pubVars, staVars, geoVars, feedVars, utilVars, locVars, mockVars>>

\* the returned cancel function: () => clearInterval(intervalId); clearing a
\* timer that is no longer active does nothing
MonitorCancel ==
  /\ monTimer # "none" /\ monCancels < MaxMonitorCancels
  /\ monCancels' = monCancels + 1
  /\ monTimer' = "cleared"
  /\ UNCHANGED <<ticksIssued, tickState, arrivals, lateTicks,
                 sosVars, smsVars, regVars, pubVars, staVars, geoVars, feedVars, utilVars, locVars, mockVars>>

\* The query asks for the newest row of the trip, whoever wrote it (lines
\* 503-509 filter on trip_id only).  For the rows of a trip that holds samples
\* of the driver and of a passenger, a result also records whose row was the
\* newest and where the driver's own latest sample was at that moment.
SubjectTickResults ==
  {[kind |-> "error"], [kind |-> "none"], [kind |-> "nocoords"]}
    \cup {[kind |-> "row", coordinates |-> c, user |-> Driver, driverAt |-> c] :
            c \in Coords}
    \cup {[kind |-> "row", coordinates |-> c, user |-> "u1", driverAt |-> dc] :
            c \in Coords, dc \in Coords}

NextPickup ==
  \/ MonitorPickupZone
  \/ MonitorTick
  \/ \E t \in 1..MaxTicks, r \in SubjectTickResults : MonitorTickResult(t, r)
  \/ MonitorCancel

NextMonitor ==
  \/ MonitorPickupZone
  \/ MonitorTick
  \/ \E t \in 1..MaxTicks, r \in TickResults : MonitorTickResult(t, r)
  \/ MonitorCancel

\* --------------------------------------------- location stream (watch ids)
InitLocation ==
  /\ locationWatchId = 0 /\ currentTripId = NULL /\ watches = {}
  /\ watchCount = 0 /\ stopCalls = 0 /\ clearWatchLog = <<>>
  /\ watchTrip = [w \in 1..MaxWatches |-> NULL]
  /\ startCalls = 0 /\ startRet = "none"

\* startLocationTracking(tripId, onUpdate, onError); supported is the truth
\* value of navigator.geolocation at the call
StartLocationTrackingAssignsFirst(trip, supported) ==
  /\ startCalls < MaxWatches
  /\ startCalls' = startCalls + 1
  /\ currentTripId' = trip
  /\ IF supported
     THEN /\ watchCount' = watchCount + 1
          /\ locationWatchId' = watchCount + 1
          /\ watches' = watches \cup {watchCount + 1}
          /\ watchTrip' = [watchTrip EXCEPT ![watchCount + 1] = trip]
          /\ startRet' = "true"
     ELSE /\ startRet' = "false"
          /\ UNCHANGED <<locationWatchId, watches, watchCount, watchTrip>>
  /\ UNCHANGED <<stopCalls, clearWatchLog>>
  /\ UNCHANGED <<sosVars, smsVars, monVars, regVars, pubVars, staVars, geoVars, feedVars, utilVars, mockVars>>

StartLocationTrackingStopsPrior(trip, supported) ==
  /\ startCalls < MaxWatches
  /\ startCalls' = startCalls + 1
  /\ IF supported
     THEN /\ currentTripId' = trip
          /\ watchCount' = watchCount + 1
          /\ locationWatchId' = watchCount + 1
          /\ watches' = (watches \ {locationWatchId}) \cup {watchCount + 1}
          /\ watchTrip' = [watchTrip EXCEPT ![watchCount + 1] = trip]
          /\ startRet' = "true"
     ELSE /\ startRet' = "false"
          /\ UNCHANGED <<currentTripId, locationWatchId, watches, watchCount,
                         watchTrip>>
  /\ UNCHANGED <<stopCalls, clearWatchLog>>
  /\ UNCHANGED <<sosVars, smsVars, monVars, regVars, pubVars, staVars, geoVars, feedVars, utilVars, mockVars>>

StartLocationTracking(trip, supported) ==
  /\ startCalls < MaxWatches
  /\ startCalls' = startCalls + 1
  /\ IF supported
     THEN /\ currentTripId' = trip
          /\ watchCount' = watchCount + 1
          /\ locationWatchId' = watchCount + 1
          /\ watches' = watches \cup {watchCount + 1}
          /\ watchTrip' = [watchTrip EXCEPT ![watchCount + 1] = trip]
          /\ startRet' = "true"
     ELSE /\ startRet' = "false"
          /\ UNCHANGED <<currentTripId, locationWatchId, watches, watchCount,
                         watchTrip>>
  /\ UNCHANGED <<stopCalls, clearWatchLog>>
  /\ UNCHANGED <<sosVars, smsVars, monVars, regVars, pubVars, staVars, geoVars, feedVars, utilVars, mockVars>>

\* body of stopLocationTracking (locationWatchId 0 stands for null)
ClearLocationWatchUnguarded ==
  /\ stopCalls' = stopCalls + 1
  /\ clearWatchLog' = Append(clearWatchLog, locationWatchId)
  /\ watches' = watches \ {locationWatchId}
  /\ locationWatchId' = 0
  /\ currentTripId' = NULL
  /\ UNCHANGED <<watchCount, watchTrip, startCalls, startRet>>

ClearLocationWatch ==
  /\ stopCalls' = stopCalls + 1
  /\ IF locationWatchId # 0
     THEN /\ clearWatchLog' = Append(clearWatchLog, locationWatchId)
          /\ watches' = watches \ {locationWatchId}
          /\ locationWatchId' = 0
     ELSE UNCHANGED <<clearWatchLog, watches, locationWatchId>>
  /\ currentTripId' = NULL
  /\ UNCHANGED <<watchCount, watchTrip, startCalls, startRet>>

StopLocationTracking ==
  /\ stopCalls < MaxStops
  /\ ClearLocationWatch
  /\ UNCHANGED <<sosVars, smsVars, monVars, regVars, pubVars, staVars, geoVars, feedVars, utilVars, mockVars>>

\* -------------------------------------------------------- channel registry
\* channel names: trip:<t>:driver:<d>, trip:<t>:status, trip:<t>:passengers
DriverKey(t, d) == <<t, "driver", d>>
StatusKey(t) == <<t, "status", NULL>>
PassengersKey(t) == <<t, "passengers", NULL>>
Keys ==
  {DriverKey(t, Driver) : t \in Trips} \cup {StatusKey(t) : t \in Trips}
    \cup {PassengersKey(t) : t \in Trips}
ChanIds == 1..MaxOpens

InitRegistry ==
  /\ channels = [k \in Keys |-> 0] /\ transport = <<>> /\ handles = {}
  /\ pending = [c \in ChanIds |-> 0] /\ cancelCount = 0
  /\ uaPc = "idle" /\ uaPos = 0 /\ uaWait = 0 /\ uaCount = 0
  /\ uaSnapshot = [k \in Keys |-> 0] /\ warnings = <<>>
  /\ removeCalls = [c \in ChanIds |-> 0] /\ wanted = {}

\* this.channels.has(channelName)
Has(k) == channels[k] # 0

\* the three subscribe methods share one body:
\*   if (has) { console.warn(...); return () => this.unsubscribe(name) }
\*   channel = supabase.channel(name).on(...).subscribe();
\*   this.channels.set(name, channel); return () => this.unsubscribe(name)
SubscribeToChannelFallsThrough(k) ==
  /\ Len(transport) + Len(warnings) < MaxOpens
  /\ handles' = handles \cup {k}
  /\ wanted' = wanted \cup {k}
  /\ warnings' = IF Has(k) THEN Append(warnings, k) ELSE warnings
  /\ transport' = Append(transport, [key |-> k, state |-> "joined"])
  /\ channels' = [channels EXCEPT ![k] = Len(transport) + 1]
  /\ UNCHANGED <<pending, cancelCount, uaPc, uaPos, uaWait, uaCount,
                 uaSnapshot, removeCalls, sosVars, smsVars, monVars, pubVars, staVars, geoVars, feedVars, utilVars, locVars, mockVars>>

SubscribeToChannel(k) ==
  /\ Len(transport) + Len(warnings) < MaxOpens
  /\ handles' = handles \cup {k}
  /\ wanted' = wanted \cup {k}
  /\ IF Has(k)
     THEN /\ warnings' = Append(warnings, k)
          /\ UNCHANGED <<channels, transport>>
     ELSE /\ transport' = Append(transport, [key |-> k, state |-> "joined"])
          /\ channels' = [channels EXCEPT ![k] = Len(transport) + 1]
          /\ UNCHANGED warnings
  /\ UNCHANGED <<pending, cancelCount, uaPc, uaPos, uaWait, uaCount,
                 uaSnapshot, removeCalls, sosVars, smsVars, monVars, pubVars, staVars, geoVars, feedVars, utilVars, locVars, mockVars>>

SubscribeToDriverLocation(t, d) == SubscribeToChannel(DriverKey(t, d))
SubscribeToTripStatus(t) == SubscribeToChannel(StatusKey(t))
SubscribeToPassengers(t) == SubscribeToChannel(PassengersKey(t))

\* supabase.removeChannel(channel) is called: the channel starts leaving
RemoveChannelStart(c) ==
  /\ transport' = [transport EXCEPT
                     ![c].state = IF @ = "removed" THEN @ ELSE "leaving"]
  /\ removeCalls' = [removeCalls EXCEPT ![c] = @ + 1]

\* removeChannel resolved; this.channels.delete(channelName)
UnsubscribeFinish(c) ==
  /\ transport' = [transport EXCEPT ![c].state = "removed"]
  /\ channels' = [channels EXCEPT ![transport[c].key] = 0]

\* a cancel function is invoked: unsubscribe(channelName) up to its await
Cancel(k) ==
  /\ k \in handles /\ cancelCount < MaxCancels
  /\ cancelCount' = cancelCount + 1
  /\ wanted' = wanted \ {k}
  /\ IF Has(k)
     THEN /\ pending' = [pending EXCEPT ![channels[k]] = @ + 1]
          /\ RemoveChannelStart(channels[k])
     ELSE UNCHANGED <<pending, transport, removeCalls>>
  /\ UNCHANGED <<channels, handles, uaPc, uaPos, uaWait, uaCount, uaSnapshot,
                 warnings, sosVars, smsVars, monVars, pubVars, staVars, geoVars, feedVars, utilVars, locVars, mockVars>>

\* the removeChannel awaited by a cancel call resolves
CancelFinish(c) ==
  /\ pending[c] > 0
  /\ pending' = [pending EXCEPT ![c] = @ - 1]
  /\ UnsubscribeFinish(c)
  /\ UNCHANGED <<handles, cancelCount, uaPc, uaPos, uaWait, uaCount,
                 uaSnapshot, warnings, removeCalls, wanted,
                 sosVars, smsVars, monVars, pubVars, staVars, geoVars, feedVars, utilVars, locVars, mockVars>>

\* for (const [channelName] of this.channels): a Map iterator is live and
\* visits entries in insertion order, which is the order of channel ids
LaterEntries(pos) == {channels[k] : k \in {j \in Keys : channels[j] > pos}}
NextEntry(pos) ==
  CHOOSE c \in LaterEntries(pos) : \A o \in LaterEntries(pos) : c <= o

\* the loop of unsubscribeAll from iterator position pos to its next await,
\* or past the loop: this.stopLocationTracking()
UnsubscribeAllAdvanceKeepsWatch(pos) ==
  IF LaterEntries(pos) = {}
  THEN /\ uaPc' = "idle" /\ uaPos' = 0 /\ uaWait' = 0
       /\ UNCHANGED <<transport, removeCalls, wanted, locVars>>
  ELSE /\ uaPc' = "await" /\ uaPos' = NextEntry(pos)
       /\ uaWait' = NextEntry(pos)
       /\ wanted' = wanted \ {transport[NextEntry(pos)].key}
       /\ RemoveChannelStart(NextEntry(pos))
       /\ UNCHANGED locVars

UnsubscribeAllAdvance(pos) ==
  IF LaterEntries(pos) = {}
  THEN /\ uaPc' = "idle" /\ uaPos' = 0 /\ uaWait' = 0
       /\ ClearLocationWatch
       /\ UNCHANGED <<transport, removeCalls, wanted>>
  ELSE /\ uaPc' = "await" /\ uaPos' = NextEntry(pos)
       /\ uaWait' = NextEntry(pos)
       /\ wanted' = wanted \ {transport[NextEntry(pos)].key}
       /\ RemoveChannelStart(NextEntry(pos))
       /\ UNCHANGED locVars

UnsubscribeAll ==
  /\ uaPc = "idle" /\ uaCount < MaxTeardowns
  /\ uaCount' = uaCount + 1
  /\ uaSnapshot' = channels
  /\ UnsubscribeAllAdvance(0)
  /\ UNCHANGED <<channels, handles, pending, cancelCount, warnings,
                 sosVars, smsVars, monVars, pubVars, staVars, geoVars, feedVars, utilVars, mockVars>>

\* the removeChannel awaited by unsubscribeAll resolves
UnsubscribeAllRemoved ==
  /\ uaPc = "await"
  /\ UnsubscribeFinish(uaWait)
  /\ uaPc' = "resume" /\ uaWait' = 0
  /\ UNCHANGED <<handles, pending, cancelCount, uaPos, uaCount, uaSnapshot,
                 warnings, removeCalls, wanted,
                 sosVars, smsVars, monVars, pubVars, staVars, geoVars, feedVars, utilVars, locVars, mockVars>>

\* unsubscribeAll continues after its await
UnsubscribeAllResume ==
  /\ uaPc = "resume"
  /\ UnsubscribeAllAdvance(uaPos)
  /\ UNCHANGED <<channels, handles, pending, cancelCount, uaCount, uaSnapshot,
                 warnings, sosVars, smsVars, monVars, pubVars, staVars, geoVars, feedVars, utilVars, mockVars>>

NextRegistry ==
  \/ \E t \in Trips : SubscribeToDriverLocation(t, Driver)
  \/ \E t \in Trips : SubscribeToTripStatus(t)
  \/ \E t \in Trips : SubscribeToPassengers(t)
  \/ \E k \in Keys : Cancel(k)
  \/ \E c \in ChanIds : CancelFinish(c)
  \/ UnsubscribeAll
  \/ UnsubscribeAllRemoved
  \/ UnsubscribeAllResume

\* global teardown with a location stream: unsubscribeAll next to the
\* subscribe methods and startLocationTracking / stopLocationTracking
NextTeardown ==
  \/ \E t \in Trips : SubscribeToDriverLocation(t, Driver)
  \/ \E t \in Trips : SubscribeToTripStatus(t)
  \/ \E t \in Trips : SubscribeToPassengers(t)
  \/ UnsubscribeAll
  \/ UnsubscribeAllRemoved
  \/ UnsubscribeAllResume
  \/ \E t \in Trips : StartLocationTracking(t, TRUE)
  \/ StopLocationTracking

\* the two cancellable resources that are not channels: the geofence
\* monitor and the location watch
NextCancel ==
  \/ NextMonitor
  \/ \E t \in Trips : StartLocationTracking(t, TRUE)
  \/ StopLocationTracking

\* ------------------------------------ position fixes and broadcastLocation
\* userId: (await supabase.auth.getUser()).data.user?.id || ''
Subjects == Users \cup {""}
NoPublish ==
  [pc |-> "none", watch |-> 0, trip |-> NULL, user |-> "pending", ts |-> 0,
   write |-> "pending"]

InitPublish ==
  /\ fixes = 0 /\ delivered = <<>> /\ writes = <<>> /\ applied = <<>>
  /\ pub = [i \in 1..MaxFixes |-> NoPublish]

\* the success callback of watch w fires with a new fix:
\*   onUpdate(position); this.broadcastLocation(tripId, position)
\* broadcastLocation is not awaited; it runs up to its await of getUser
PositionFix(w) ==
  /\ w \in watches /\ fixes < MaxFixes
  /\ fixes' = fixes + 1
  /\ delivered' = Append(delivered, fixes + 1)
  /\ pub' = [pub EXCEPT ![fixes + 1] =
                [NoPublish EXCEPT !.pc = "getUser", !.watch = w,
                                  !.trip = watchTrip[w]]]
  /\ UNCHANGED <<writes, applied, sosVars, smsVars, monVars, regVars, locVars, staVars, geoVars, feedVars, utilVars, mockVars>>

\* getUser of the publish of fix i settles.  The await sits outside the try
\* block (lines 91-92), so a rejection rejects broadcastLocation; otherwise
\* the sample is built and the upsert is issued.  timestamp is new Date() at
\* that moment (line 101): the clock is counted in samples built so far
BroadcastGetUser(i, res) ==
  /\ pub[i].pc = "getUser"
  /\ IF res = "raise"
     THEN /\ pub' = [pub EXCEPT ![i].pc = "rejected", ![i].user = res]
          /\ UNCHANGED writes
     ELSE /\ pub' = [pub EXCEPT ![i].pc = "upsert",
                                ![i].user = IF res = NULL THEN "" ELSE res,
                                ![i].ts = Len(writes) + 1]
          /\ writes' = Append(writes, i)
  /\ UNCHANGED <<fixes, delivered, applied, sosVars, smsVars, monVars, regVars, locVars, staVars, geoVars, feedVars, utilVars, mockVars>>

\* the upsert settles: applied by the store, refused with {error} (not
\* inspected), or the call rejects and the catch logs it (lines 104-116)
UpsertOutcomes == {"ok", "error", "raise"}

BroadcastUpsert(i, res) ==
  /\ pub[i].pc = "upsert"
  /\ pub' = [pub EXCEPT ![i].pc = "done", ![i].write = res]
  /\ applied' = IF res = "ok"
                THEN Append(applied, [fix |-> i, trip |-> pub[i].trip,
                                      user |-> pub[i].user, ts |-> pub[i].ts])
                ELSE applied
  /\ UNCHANGED <<fixes, delivered, writes, sosVars, smsVars, monVars, regVars, locVars, staVars, geoVars, feedVars, utilVars, mockVars>>

\* starting and stopping the stream, on platforms with and without a
\* position source, and the fixes the source delivers
StreamTrips == Trips \cup {"t2"}

NextStart ==
  \/ \E t \in StreamTrips, g \in BOOLEAN : StartLocationTracking(t, g)
  \/ StopLocationTracking
  \/ \E w \in watches : PositionFix(w)
  \/ \E i \in 1..MaxFixes, r \in UserOutcomes : BroadcastGetUser(i, r)

NextLocation ==
  \/ \E t \in Trips, g \in BOOLEAN : StartLocationTracking(t, g)
  \/ StopLocationTracking
  \/ \E w \in 1..MaxWatches : PositionFix(w)
  \/ \E i \in 1..MaxFixes, r \in UserOutcomes : BroadcastGetUser(i, r)
  \/ \E i \in 1..MaxFixes, r \in UpsertOutcomes : BroadcastUpsert(i, r)

\* -------------------------------------------------------- updateTripStatus
Statuses ==
  {"waiting", "arriving", "picked_up", "in_progress", "completed", "cancelled"}
\* eta?: Date -- absent, a valid Date, or an invalid Date (toISOString throws)
Etas == {"none", "valid", "invalid"}
UpdateOutcomes == {"ok", "error", "raise"}

InitStatus ==
  /\ tripStatus = "waiting" /\ utsPrev = "waiting"
  /\ utsPc = "idle" /\ utsReq = "waiting" /\ utsRet = "pending" /\ utsCount = 0
  /\ utsStore = "none" /\ utsWrites = 0 /\ statusLog = <<>>

\* updateTripStatus(tripId, status, eta, ...) up to its await; building the
\* update object is inside the try, so an invalid eta returns false at once
UpdateTripStatus(t, status, eta) ==
  /\ utsPc = "idle" /\ utsCount < MaxUpdates
  /\ utsCount' = utsCount + 1
  /\ utsReq' = status
  /\ IF eta = "invalid"
     THEN /\ utsPc' = "idle" /\ utsRet' = "false" /\ utsStore' = "none"
          /\ UNCHANGED utsWrites
     ELSE /\ utsPc' = "update" /\ utsRet' = "pending" /\ utsStore' = "pending"
          /\ utsWrites' = utsWrites + 1
  /\ UNCHANGED <<tripStatus, utsPrev, statusLog, sosVars, smsVars, monVars, regVars, locVars, pubVars, geoVars, feedVars, utilVars, mockVars>>

\* the update of the trips row settles:
\*   if (error) throw error; return true   /   catch: return false
UpdateTripStatusResultIgnoresError(res) ==
  /\ utsPc = "update"
  /\ utsPc' = "idle" /\ utsStore' = res
  /\ utsRet' = IF res = "ok" THEN "true" ELSE "false"
  /\ tripStatus' = utsReq
  /\ utsPrev' = IF utsReq # tripStatus THEN tripStatus ELSE utsPrev
  /\ statusLog' = Append(statusLog, utsReq)
  /\ UNCHANGED <<utsReq, utsCount, utsWrites, sosVars, smsVars, monVars, regVars, locVars, pubVars, geoVars, feedVars, utilVars, mockVars>>

UpdateTripStatusResultTerminalSticks(res) ==
  /\ utsPc = "update"
  /\ utsPc' = "idle" /\ utsStore' = res
  /\ IF res = "ok" /\ tripStatus \notin {"completed", "cancelled"}
     THEN /\ utsRet' = "true" /\ tripStatus' = utsReq
          /\ utsPrev' = IF utsReq # tripStatus THEN tripStatus ELSE utsPrev
          /\ statusLog' = Append(statusLog, utsReq)
     ELSE utsRet' = "false" /\ UNCHANGED <<tripStatus, utsPrev, statusLog>>
  /\ UNCHANGED <<utsReq, utsCount, utsWrites, sosVars, smsVars, monVars, regVars, locVars, pubVars, geoVars, feedVars, utilVars, mockVars>>

UpdateTripStatusResultRetries(res) ==
  /\ utsPc = "update"
  /\ utsStore' = res
  /\ IF res = "ok"
     THEN /\ utsPc' = "idle" /\ utsRet' = "true" /\ tripStatus' = utsReq
          /\ utsPrev' = IF utsReq # tripStatus THEN tripStatus ELSE utsPrev
          /\ statusLog' = Append(statusLog, utsReq)
          /\ UNCHANGED utsWrites
     ELSE /\ utsPc' = "idle" /\ utsRet' = "false"
          /\ utsWrites' = utsWrites + 1
          /\ UNCHANGED <<tripStatus, utsPrev, statusLog>>
  /\ UNCHANGED <<utsReq, utsCount, sosVars, smsVars, monVars, regVars, locVars, pubVars, geoVars, feedVars, utilVars, mockVars>>

UpdateTripStatusResult(res) ==
  /\ utsPc = "update"
  /\ utsPc' = "idle" /\ utsStore' = res
  /\ IF res = "ok"
     THEN /\ utsRet' = "true" /\ tripStatus' = utsReq
          /\ utsPrev' = IF utsReq # tripStatus THEN tripStatus ELSE utsPrev
          /\ statusLog' = Append(statusLog, utsReq)
     ELSE utsRet' = "false" /\ UNCHANGED <<tripStatus, utsPrev, statusLog>>
  /\ UNCHANGED <<utsReq, utsCount, utsWrites, sosVars, smsVars, monVars, regVars, locVars, pubVars, geoVars, feedVars, utilVars, mockVars>>

NextStatus ==
  \/ \E t \in Trips, s \in Statuses, e \in Etas : UpdateTripStatus(t, s, e)
  \/ \E r \in UpdateOutcomes : UpdateTripStatusResult(r)

\* ------------------------------------- isWithinGeofence / calculateETA
\* Distances handed to the estimate are in decimetres and speeds in tenths
\* of the unit of currentSpeed, so that halves of a metre or of a second
\* occur and Math.round is exercised on both sides of them.
EtaGaps == {0, 4, 5, 14, 15, 1389, 138900}
EtaSpeeds == {-10, 0, 10, 36, 500}
Radii == {0, 100, 4604539, 4604540, 20015087}

\* Math.round(n / d) for n >= 0, d > 0
Round(n, d) == (n \div d) + (IF 2 * (n % d) >= d THEN 1 ELSE 0)

\* Math.round(n * m / d), split so that no product leaves 32 bits
RoundMulDiv(n, m, d) == m * (n \div d) + Round(m * (n % d), d)

\* const speed = currentSpeed > 0 ? currentSpeed / 3.6 : 13.89;
\* const duration = distance / speed;
\* return { eta, distance: Math.round(distance), duration: Math.round(duration) }
\* With gap = 10 distance and s = 10 currentSpeed, duration in seconds is
\* gap * 18 / (5 s) or gap * 10 / 1389; eta is Date.now() plus that fraction.
EstimateDefaultFifty(gap, currentSpeed) ==
  LET mul == IF currentSpeed > 0 THEN 18 ELSE 1
      den == IF currentSpeed > 0 THEN 5 * currentSpeed ELSE 500
  IN [eta |-> <<mul, den>>,
      distance |-> Round(gap, 10),
      duration |-> RoundMulDiv(gap, mul, den)]

Estimate(gap, currentSpeed) ==
  LET mul == IF currentSpeed > 0 THEN 18 ELSE 10
      den == IF currentSpeed > 0 THEN 5 * currentSpeed ELSE 1389
  IN [eta |-> <<mul, den>>,
      distance |-> Round(gap, 10),
      duration |-> RoundMulDiv(gap, mul, den)]

\* calculateETA(currentLocation, destination, currentSpeed)
CalculateETA(currentLocation, destination, currentSpeed) ==
  Estimate(10 * Dist(currentLocation, destination), currentSpeed)

InitGeo == geoCall = <<>>

\* a call of isWithinGeofence on two grid points
CallIsWithinGeofence(location, center, radius) ==
  /\ geoCall' = <<[fn |-> "isWithinGeofence", location |-> location,
                   center |-> center, radius |-> radius,
                   ret |-> IsWithinGeofence(location, center, radius)]>>
  /\ UNCHANGED <<sosVars, smsVars, monVars, regVars, locVars, pubVars, staVars, feedVars, utilVars, mockVars>>

\* a call of calculateETA on two grid points
CallCalculateETA(currentLocation, destination, currentSpeed) ==
  /\ geoCall' = <<[fn |-> "calculateETA",
                   points |-> <<currentLocation, destination>>,
                   gap |-> 10 * Dist(currentLocation, destination),
                   currentSpeed |-> currentSpeed,
                   ret |-> CalculateETA(currentLocation, destination,
                                        currentSpeed)]>>
  /\ UNCHANGED <<sosVars, smsVars, monVars, regVars, locVars, pubVars, staVars, feedVars, utilVars, mockVars>>

\* a call of calculateETA on two nearby points, gap decimetres apart
CallCalculateETANear(gap, currentSpeed) ==
  /\ geoCall' = <<[fn |-> "calculateETA", points |-> <<>>, gap |-> gap,
                   currentSpeed |-> currentSpeed,
                   ret |-> Estimate(gap, currentSpeed)]>>
  /\ UNCHANGED <<sosVars, smsVars, monVars, regVars, locVars, pubVars, staVars, feedVars, utilVars, mockVars>>

NextGeo ==
  \/ \E a \in GeoPoints, b \in GeoPoints, r \in Radii :
       CallIsWithinGeofence(a, b, r)
  \/ \E a \in GeoPoints, b \in GeoPoints, s \in EtaSpeeds :
       CallCalculateETA(a, b, s)
  \/ \E g \in EtaGaps, s \in EtaSpeeds : CallCalculateETANear(g, s)

\* ------------------------------------ live_locations change feed handlers
MaxChanges == 2
FeedTrip == "t1"
FeedUsers == {Driver, "u1"}
\* the rows of the subscribed trip and one row of another trip
FeedKeys == ({FeedTrip} \X FeedUsers) \cup {<<"t2", Driver>>}

\* a channel of that name is joined
Joined(k) ==
  \E c \in 1..Len(transport) :
    transport[c].key = k /\ transport[c].state = "joined"

\* .select('*').eq('trip_id', tripId): the rows of the trip, by user
RowsOfTrip(rows, t) == [u \in FeedUsers |-> rows[<<t, u>>]]
NoRows == [u \in FeedUsers |-> 0]
NoRequery == [pc |-> "none", event |-> 0, at |-> 0, data |-> "pending", rows |-> NoRows]

InitFeed ==
  /\ liveRows = [k \in FeedKeys |-> 0] /\ storeVer = 0 /\ changeLog = <<>>
  /\ driverCalls = <<>> /\ snapshots = <<>>
  /\ requeries = [i \in 1..MaxChanges |-> NoRequery]

\* the change events a channel is bound to: 'UPDATE' with the filter on trip
\* and user (driver location), '*' with the filter on the trip (passengers)
DriverEventTypes == {"UPDATE"}
PassengersEventTypes == {"INSERT", "UPDATE", "DELETE"}

\* The store applies a change to the row of (trip, user): an upsert inserts
\* the row or updates it, a delete removes it.  The change event reaches the
\* joined channels bound to it:
\*   driver location: (payload) => onUpdate({userId: payload.new.user_id, ...})
\*   passengers: async () => { const { data } = await supabase.from(...)
\* the passengers callback runs up to the await of its query.
StoreChange(t, u, op) ==
  LET type == IF op = "delete" THEN "DELETE"
              ELSE IF liveRows[<<t, u>>] = 0 THEN "INSERT" ELSE "UPDATE"
      ver == storeVer + 1
      toDriver == /\ Joined(DriverKey(FeedTrip, Driver))
                  /\ t = FeedTrip /\ u = Driver /\ type \in DriverEventTypes
      toPassengers == /\ Joined(PassengersKey(FeedTrip))
                      /\ t = FeedTrip /\ type \in PassengersEventTypes
  IN /\ storeVer < MaxChanges
     /\ op = "delete" => liveRows[<<t, u>>] # 0
     /\ storeVer' = ver
     /\ liveRows' = [liveRows EXCEPT ![<<t, u>>] = IF op = "delete" THEN 0 ELSE ver]
     /\ changeLog' = Append(changeLog,
                            [ver |-> ver, trip |-> t, user |-> u, type |-> type,
                             driverJoined |-> Joined(DriverKey(FeedTrip, Driver)),
                             passengersJoined |-> Joined(PassengersKey(FeedTrip))])
     /\ driverCalls' = IF toDriver
                       THEN Append(driverCalls, [ver |-> ver, trip |-> t, user |-> u])
                       ELSE driverCalls
     /\ requeries' = IF toPassengers
                     THEN [requeries EXCEPT ![ver] = [NoRequery EXCEPT !.pc = "query", !.event = ver]]
                     ELSE requeries
     /\ UNCHANGED <<snapshots, sosVars, smsVars, monVars, regVars, locVars,
                    pubVars, staVars, geoVars, utilVars, mockVars>>

\* the store runs the re-query i: { data } is the trip's rows at that moment,
\* or null when the query fails
QueryOutcomes == {"ok", "error"}

PassengersQueryRead(i, res) ==
  /\ requeries[i].pc = "query"
  /\ requeries' = [requeries EXCEPT ![i].pc = "read", ![i].at = storeVer,
                     ![i].data = res,
                     ![i].rows = IF res = "ok" THEN RowsOfTrip(liveRows, FeedTrip)
                                 ELSE NoRows]
  /\ UNCHANGED <<liveRows, storeVer, changeLog, driverCalls, snapshots,
                 sosVars, smsVars, monVars, regVars, locVars, pubVars, staVars,
                 geoVars, utilVars, mockVars>>

\* the response of re-query i arrives: if (data) { onUpdate(data.map(...)) }
PassengersQueryResultSendsPayload(i) ==
  /\ requeries[i].pc = "read"
  /\ requeries' = [requeries EXCEPT ![i].pc = "done"]
  /\ snapshots' = IF requeries[i].data = "ok"
                  THEN Append(snapshots,
                              [query |-> i, at |-> requeries[i].event,
                               rows |-> [u \in FeedUsers |->
                                           IF changeLog[requeries[i].event].user = u
                                           THEN requeries[i].event ELSE 0]])
                  ELSE snapshots
  /\ UNCHANGED <<liveRows, storeVer, changeLog, driverCalls,
                 sosVars, smsVars, monVars, regVars, locVars, pubVars, staVars,
                 geoVars, utilVars, mockVars>>

PassengersQueryResult(i) ==
  /\ requeries[i].pc = "read"
  /\ requeries' = [requeries EXCEPT ![i].pc = "done"]
  /\ snapshots' = IF requeries[i].data = "ok"
                  THEN Append(snapshots,
                              [query |-> i, at |-> requeries[i].at,
                               rows |-> requeries[i].rows])
                  ELSE snapshots
  /\ UNCHANGED <<liveRows, storeVer, changeLog, driverCalls,
                 sosVars, smsVars, monVars, regVars, locVars, pubVars, staVars,
                 geoVars, utilVars, mockVars>>

NextFeed ==
  \/ SubscribeToDriverLocation(FeedTrip, Driver)
  \/ SubscribeToPassengers(FeedTrip)
  \/ \E k \in FeedKeys, op \in {"upsert", "delete"} :
       StoreChange(k[1], k[2], op)
  \/ \E i \in 1..MaxChanges, r \in QueryOutcomes : PassengersQueryRead(i, r)
  \/ \E i \in 1..MaxChanges : PassengersQueryResult(i)

\* ------------------------------------------------- debounce / throttle
MaxTime == 5
MaxCalls == 3
\* debounce(func, wait) and throttle(func, limit) as created by the caller
Wait == 2
Limit == 2
CallArgs == {"a", "b"}
NoCall == [at |-> 0, args |-> NULL]

InitUtil ==
  /\ now = 0
  /\ dbTimeout = 0 /\ dbArgs = NULL /\ dbLast = NoCall /\ dbCalls = <<>>
  /\ dbCount = 0
  /\ inThrottle = FALSE /\ thTimer = 0 /\ thLog = <<>> /\ thCalls = <<>>

\* time passes by one unit, unless a timer is due: a due timer runs first
Tick ==
  /\ now < MaxTime
  /\ dbTimeout = 0 \/ now < dbTimeout
  /\ thTimer = 0 \/ now < thTimer
  /\ now' = now + 1
  /\ UNCHANGED <<dbTimeout, dbArgs, dbLast, dbCalls, dbCount, inThrottle,
                 thTimer, thLog, thCalls>>
  /\ UNCHANGED <<sosVars, smsVars, monVars, regVars, locVars, pubVars, staVars,
                 geoVars, feedVars, mockVars>>

\* executedFunction(...args) of debounce:
\*   if (timeout) clearTimeout(timeout); timeout = setTimeout(later, wait)
DebouncedCallKeepsTimer(args) ==
  /\ dbCount < MaxCalls
  /\ dbCount' = dbCount + 1
  /\ dbLast' = [at |-> now, args |-> args]
  /\ dbTimeout' = IF dbTimeout # 0 THEN dbTimeout ELSE now + Wait
  /\ dbArgs' = args
  /\ UNCHANGED <<now, dbCalls, inThrottle, thTimer, thLog, thCalls>>
  /\ UNCHANGED <<sosVars, smsVars, monVars, regVars, locVars, pubVars, staVars,
                 geoVars, feedVars, mockVars>>

DebouncedCall(args) ==
  /\ dbCount < MaxCalls
  /\ dbCount' = dbCount + 1
  /\ dbLast' = [at |-> now, args |-> args]
  /\ dbTimeout' = now + Wait
  /\ dbArgs' = args
  /\ UNCHANGED <<now, dbCalls, inThrottle, thTimer, thLog, thCalls>>
  /\ UNCHANGED <<sosVars, smsVars, monVars, regVars, locVars, pubVars, staVars,
                 geoVars, feedVars, mockVars>>

\* the timer of debounce is due: later() { timeout = null; func(...args) }
DebounceLater ==
  /\ dbTimeout # 0 /\ now = dbTimeout
  /\ dbTimeout' = 0
  /\ dbCalls' = Append(dbCalls, [at |-> now, args |-> dbArgs])
  /\ UNCHANGED <<now, dbArgs, dbLast, dbCount, inThrottle, thTimer, thLog,
                 thCalls>>
  /\ UNCHANGED <<sosVars, smsVars, monVars, regVars, locVars, pubVars, staVars,
                 geoVars, feedVars, mockVars>>

\* executedFunction(...args) of throttle:
\*   if (!inThrottle) { func(...args); inThrottle = true; setTimeout(..., limit) }
ThrottledCallAlwaysInvokes(args) ==
  /\ Len(thLog) < MaxCalls
  /\ thLog' = Append(thLog, [at |-> now, args |-> args, inThrottle |-> inThrottle])
  /\ thCalls' = Append(thCalls, [at |-> now, args |-> args])
  /\ IF ~inThrottle
     THEN inThrottle' = TRUE /\ thTimer' = now + Limit
     ELSE UNCHANGED <<inThrottle, thTimer>>
  /\ UNCHANGED <<now, dbTimeout, dbArgs, dbLast, dbCalls, dbCount>>
  /\ UNCHANGED <<sosVars, smsVars, monVars, regVars, locVars, pubVars, staVars,
                 geoVars, feedVars, mockVars>>

ThrottledCall(args) ==
  /\ Len(thLog) < MaxCalls
  /\ thLog' = Append(thLog, [at |-> now, args |-> args, inThrottle |-> inThrottle])
  /\ IF ~inThrottle
     THEN /\ thCalls' = Append(thCalls, [at |-> now, args |-> args])
          /\ inThrottle' = TRUE
          /\ thTimer' = now + Limit
     ELSE UNCHANGED <<thCalls, inThrottle, thTimer>>
  /\ UNCHANGED <<now, dbTimeout, dbArgs, dbLast, dbCalls, dbCount>>
  /\ UNCHANGED <<sosVars, smsVars, monVars, regVars, locVars, pubVars, staVars,
                 geoVars, feedVars, mockVars>>

\* the timer of throttle is due: () => { inThrottle = false }
ThrottleReset ==
  /\ thTimer # 0 /\ now = thTimer
  /\ thTimer' = 0
  /\ inThrottle' = FALSE
  /\ UNCHANGED <<now, dbTimeout, dbArgs, dbLast, dbCalls, dbCount, thLog,
                 thCalls>>
  /\ UNCHANGED <<sosVars, smsVars, monVars, regVars, locVars, pubVars, staVars,
                 geoVars, feedVars, mockVars>>

NextDebounce ==
  \/ Tick
  \/ \E a \in CallArgs : DebouncedCall(a)
  \/ DebounceLater

NextThrottle ==
  \/ Tick
  \/ \E a \in CallArgs : ThrottledCall(a)
  \/ ThrottleReset

\* ---------------------------------------------- MockDataStore.createBooking
MaxCreates == 3
\* two of the sample trips of initializeMockData, with their available_seats
MockTripIds == {"trip-1", "trip-2"}
InitialSeats == [t \in MockTripIds |-> IF t = "trip-1" THEN 2 ELSE 1]
\* the tripId and seatsRequested arguments
RequestedTripIds == MockTripIds \cup {"trip-9"}
SeatRequests == {-1, 0, 1, 2}

InitMock ==
  /\ mockTrips = InitialSeats /\ mockBookings = <<>> /\ nextBookingId = 1
  /\ cbPending = <<>> /\ cbLog = <<>>

\* createBooking up to its await: getTripById runs this.trips.find(...) at
\* the call and the caller is suspended on the promise
CreateBooking(tripId, seatsRequested) ==
  /\ Len(cbPending) + Len(cbLog) < MaxCreates
  /\ cbPending' = Append(cbPending,
                         [tripId |-> tripId, seats |-> seatsRequested,
                          found |-> tripId \in MockTripIds])
  /\ UNCHANGED <<mockTrips, mockBookings, nextBookingId, cbLog>>
  /\ UNCHANGED <<sosVars, smsVars, monVars, regVars, locVars, pubVars, staVars,
                 geoVars, feedVars, utilVars>>

\* the rest of createBooking, run without another await: the two checks, the
\* new booking, the seats of the trip, this.bookings.push.  Suspended calls
\* resume in the order in which they were suspended.
CreateBookingResumeUnchecked ==
  /\ cbPending # <<>>
  /\ LET c == Head(cbPending) IN
     IF ~c.found
     THEN /\ cbLog' = Append(cbLog, [tripId |-> c.tripId, seats |-> c.seats,
                                     ret |-> "Trip not found"])
          /\ UNCHANGED <<mockTrips, mockBookings, nextBookingId>>
     ELSE /\ cbLog' = Append(cbLog, [tripId |-> c.tripId, seats |-> c.seats,
                                     ret |-> "ok"])
          /\ nextBookingId' = nextBookingId + 1
          /\ mockTrips' = [mockTrips EXCEPT ![c.tripId] = @ - c.seats]
          /\ mockBookings' = Append(mockBookings,
                                    [id |-> nextBookingId, trip_id |-> c.tripId,
                                     seats_requested |-> c.seats])
  /\ cbPending' = Tail(cbPending)
  /\ UNCHANGED <<sosVars, smsVars, monVars, regVars, locVars, pubVars, staVars,
                 geoVars, feedVars, utilVars>>

CreateBookingResume ==
  /\ cbPending # <<>>
  /\ LET c == Head(cbPending) IN
     IF ~c.found
     THEN /\ cbLog' = Append(cbLog, [tripId |-> c.tripId, seats |-> c.seats,
                                     ret |-> "Trip not found"])
          /\ UNCHANGED <<mockTrips, mockBookings, nextBookingId>>
     ELSE IF mockTrips[c.tripId] < c.seats
     THEN /\ cbLog' = Append(cbLog, [tripId |-> c.tripId, seats |-> c.seats,
                                     ret |-> "Not enough available seats"])
          /\ UNCHANGED <<mockTrips, mockBookings, nextBookingId>>
     ELSE /\ cbLog' = Append(cbLog, [tripId |-> c.tripId, seats |-> c.seats,
                                     ret |-> "ok"])
          /\ nextBookingId' = nextBookingId + 1
          /\ mockTrips' = [mockTrips EXCEPT ![c.tripId] = @ - c.seats]
          /\ mockBookings' = Append(mockBookings,
                                    [id |-> nextBookingId, trip_id |-> c.tripId,
                                     seats_requested |-> c.seats])
  /\ cbPending' = Tail(cbPending)
  /\ UNCHANGED <<sosVars, smsVars, monVars, regVars, locVars, pubVars, staVars,
                 geoVars, feedVars, utilVars>>

NextMock ==
  \/ \E t \in RequestedTripIds, n \in SeatRequests : CreateBooking(t, n)
  \/ CreateBookingResume

Init ==
  /\ InitSOS /\ InitSMS /\ InitMonitor /\ InitRegistry /\ InitLocation
  /\ InitPublish /\ InitStatus /\ InitGeo /\ InitFeed /\ InitUtil /\ InitMock

SpecSOS == Init /\ [][NextSOS]_vars
SpecSMS == Init /\ [][NextSMS]_vars
SpecMonitor == Init /\ [][NextMonitor]_vars
SpecPickup == Init /\ [][NextPickup]_vars
\* the interval timer keeps firing while it is active, and every query that
\* was issued is answered
SpecMonitorLive ==
  /\ SpecMonitor
  /\ WF_vars(MonitorTick)
  /\ \A t \in 1..MaxTicks : WF_vars(\E r \in TickResults : MonitorTickResult(t, r))
SpecRegistry == Init /\ [][NextRegistry]_vars
SpecTeardown == Init /\ [][NextTeardown]_vars
SpecCancel == Init /\ [][NextCancel]_vars
SpecLocation == Init /\ [][NextLocation]_vars
SpecStart == Init /\ [][NextStart]_vars
SpecStatus == Init /\ [][NextStatus]_vars
SpecGeo == Init /\ [][NextGeo]_vars
SpecFeed == Init /\ [][NextFeed]_vars
SpecDebounce == Init /\ [][NextDebounce]_vars
SpecThrottle == Init /\ [][NextThrottle]_vars
SpecMock == Init /\ [][NextMock]_vars

\* =================================================================== claims
IsPush(n) == n[1] = "push"
PushesTo(p) == Cardinality({i \in 1..Len(notifs) : notifs[i] = <<"push", p>>})
ParticipantSet(row) == ({row.driver_id} \cup {row.bookings[i] : i \in 1..Len(row.bookings)}) \ {NULL}

\* C1: within one sendEmergencySOS execution no SMS, push or emergency-services
\* call is issued unless the alert insert of that execution succeeded; when the
\* insert fails the call returns false and has issued no notification call.
C1_NoNotificationWithoutAlert ==
  /\ notifs # <<>> => sosInsert = "ok"
  /\ sosInsert = "error" => sosPc = "done" /\ sosRet = "false" /\ notifs = <<>>

C1_Witness == sosPc = "done" /\ sosInsert = "error" /\ sosRet = "false"

\* C2: once the alert insert succeeded the call returns true, whatever failed
\* in the fan-out (profile, SMS, participant lookup, push, emergency services).
C2_TrueOnceAlertStored ==
  sosPc = "done" /\ sosInsert = "ok" => sosRet = "true"

C2_Witness ==
  /\ sosPc = "done" /\ sosInsert = "ok" /\ sosRet = "true"
  /\ {"sms", "push"} \subseteq sosFailed
  /\ \E i \in 1..Len(notifs) : IsPush(notifs[i])

\* C3: when the triggering identity cannot be resolved the call returns false,
\* attempts no alert insert (no alert without a user id exists) and issues no
\* notification call.
C3_NoAnonymousSOS ==
  /\ sosUser \in {NULL, "raise"} =>
       /\ sosPc = "done" /\ sosRet = "false"
       /\ sosInsert = "pending" /\ notifs = <<>>
  /\ \A i \in 1..Len(alerts) : alerts[i].user_id \in Users

C3_Witness == sosUser = NULL /\ sosPc = "done" /\ sosCount = 2 /\ Len(alerts) = 1

\* C4 (as claimed): after a successful insert every fan-out branch is
\* attempted, whatever happened in the others: the profile load (SMS branch),
\* the participant lookup (push branch) and the emergency-services call.
C4_BranchesIndependent ==
  sosPc = "done" /\ sosInsert = "ok" => {"profile", "trip", "fetch"} \subseteq sosTried

\* C5 (as claimed): once the push loop of a loaded trip is over, every
\* participant of the trip has received exactly one push attempt.
C5_OnePushPerParticipant ==
  sosPc \in {"fetch", "done"} /\ tripRow.kind = "row" =>
    \A p \in ParticipantSet(tripRow) : PushesTo(p) = 1

\* C6: sendEmergencySMS attempts one SMS per contact, in list order, whatever
\* the earlier sends returned, and returns {sent, failed} counting the
\* successful and the failed sends, so that sent + failed = number of contacts.
C6_SmsCounts ==
  smsPc = "returned" =>
    /\ Len(smsLog) = Len(smsContacts)
    /\ \A i \in 1..Len(smsLog) : smsLog[i].phone = smsContacts[i]
    /\ smsRet.sent = Cardinality({i \in 1..Len(smsLog) : smsLog[i].success})
    /\ smsRet.failed = Cardinality({i \in 1..Len(smsLog) : ~smsLog[i].success})
    /\ smsRet.sent + smsRet.failed = Len(smsContacts)

C6_Witness ==
  /\ smsPc = "returned" /\ Len(smsContacts) = 3
  /\ ~smsLog[2].success
  /\ smsRet = [sent |-> 2, failed |-> 1]

\* C7: an invocation inserts at most one alert, exactly one with status active
\* when the identity resolved and the store accepted the write, and an alert
\* that exists is never changed or removed afterwards.
C7_AlertOnceAppendOnly ==
  /\ [](/\ Len(alerts) <= sosCount
        /\ sosInsert = "ok" =>
             /\ alerts # <<>>
             /\ alerts[Len(alerts)] =
                  [trip_id |-> sosTrip, user_id |-> sosUser, status |-> "active"])
  /\ [][/\ Len(alerts') <= Len(alerts) + 1
        /\ \A i \in 1..Len(alerts) : i <= Len(alerts') /\ alerts'[i] = alerts[i]
        /\ Len(alerts') = Len(alerts) + 1 => sosPc = "insert" /\ sosPc' = "profile"]_vars

C7_Witness ==
  /\ Len(alerts) = 2 /\ alerts[1].user_id # alerts[2].user_id
  /\ sosInsert = "ok" /\ sosPc = "done"

\* C8 (as claimed): onArrival is invoked at most once per watch, by the first
\* tick whose sample lies inside the radius, and no tick is issued after that
\* invocation, also when store responses are slower than the poll interval.
C8_ArrivalOnceThenStop ==
  /\ Len(arrivals) <= 1
  /\ \A t \in 1..MaxTicks :
       Arrived(tickState[t]) =>
         /\ \E i \in 1..Len(arrivals) : arrivals[i] = t
         /\ arrivals[1] <= t
  /\ lateTicks = {}

\* C9: a tick whose query fails or returns no sample does not invoke
\* onArrival and does not stop the timer, so the loop goes on polling.
C9_SkippedTickKeepsPolling ==
  [][\A t \in 1..MaxTicks :
       tickState[t] = Pending /\ tickState'[t].kind \in {"error", "none", "nocoords"} =>
         /\ arrivals' = arrivals
         /\ monTimer' = monTimer
         /\ (monTimer = "active" /\ ticksIssued < MaxTicks => ENABLED MonitorTick)']_vars

C9_Witness ==
  /\ tickState[1].kind = "error" /\ tickState[2].kind = "none"
  /\ tickState[3] = Pending
  /\ monTimer = "active" /\ arrivals = <<>>

\* C10 (as claimed): at most one underlying channel is open for each key, in
\* every state reached by subscribe, cancel and unsubscribeAll calls.
C10_OneChannelPerKey ==
  \A k \in Keys :
    Cardinality({c \in 1..Len(transport) :
                   transport[c].key = k /\ transport[c].state = "joined"}) <= 1

\* C11: a subscribe call on a key that is already registered (the step that
\* logs the 'Already subscribed' warning for that key) opens no channel at
\* the realtime client, leaves this.channels unchanged and hands out a cancel
\* function for the key; invoking a cancel function of such a key calls
\* removeChannel on the channel registered for it.
Warned == {warnings[i] : i \in 1..Len(warnings)}
C11_DuplicateSubscribeNoOp ==
  [][/\ Len(warnings') > Len(warnings) =>
          /\ Has(warnings'[Len(warnings')])
          /\ channels' = channels /\ transport' = transport
          /\ warnings'[Len(warnings')] \in handles'
     /\ \A k \in Warned : Cancel(k) /\ Has(k) =>
          /\ removeCalls'[channels[k]] = removeCalls[channels[k]] + 1
          /\ transport'[channels[k]].state # "joined"]_vars
C11_Witness ==
  /\ warnings # <<>> /\ Len(transport) = 1
  /\ channels[warnings[1]] = 1 /\ transport[1].state = "joined"

\* C12: the cancel function is idempotent: over any number of invocations of
\* cancel functions (no unsubscribeAll involved) removeChannel is called at
\* most once on each channel, and once no cancel of a channel is awaiting
\* its removal the channel is removed and its key no longer maps to it.
C12_CancelIdempotent ==
  uaCount = 0 =>
    \A c \in 1..Len(transport) :
      /\ removeCalls[c] <= 1
      /\ removeCalls[c] >= 1 /\ pending[c] = 0 =>
           /\ transport[c].state = "removed"
           /\ channels[transport[c].key] # c

\* C13: a subscription is not lost to an interleaved cancel: a key that was
\* subscribed to with no cancel issued since is, once no cancel of that key
\* is awaiting a channel removal, registered with a joined channel.
InFlight(k) ==
  \E c \in 1..Len(transport) :
    transport[c].key = k /\ (pending[c] > 0 \/ uaWait = c)
C13_SubscriptionNotLost ==
  \A k \in wanted :
    ~InFlight(k) => Has(k) /\ transport[channels[k]].state = "joined"

\* C14: the step that completes unsubscribeAll leaves every key that was
\* registered when it was called absent from this.channels, with the channel
\* it was registered with removed at the realtime client.
UnsubscribeAllCompletes ==
  uaPc' = "idle" /\ (uaPc # "idle" \/ uaCount' > uaCount)
C14_TeardownCancelsAll ==
  [][UnsubscribeAllCompletes =>
       \A k \in Keys : uaSnapshot'[k] # 0 =>
         /\ channels'[k] = 0
         /\ transport'[uaSnapshot'[k]].state = "removed"]_vars
\* C15: the step that completes unsubscribeAll leaves the location stream
\* cancelled: the watch held in locationWatchId is cleared at the position
\* source and locationWatchId and currentTripId are null, whichever channel
\* removals the call performed.
C15_TeardownStopsStream ==
  [][UnsubscribeAllCompletes =>
       /\ locationWatchId' = 0 /\ currentTripId' = NULL
       /\ locationWatchId \notin watches']_vars
C15_Witness ==
  /\ uaCount > 0 /\ uaPc = "idle"
  /\ \E k \in Keys : uaSnapshot[k] # 0
  /\ clearWatchLog # <<>> /\ locationWatchId = 0 /\ currentTripId = NULL

\* C16: cancelling the location stream or the geofence monitor again changes
\* nothing: a stopLocationTracking call made while no watch is held, and a
\* call of the monitor's cancel function made after the timer was cleared
\* (by an earlier cancel or by the monitor itself on arrival), leave the
\* stream and the monitor as they were, and no watch id is ever passed to
\* clearWatch twice (null never).
C16_CancelTwiceNoOp ==
  [][/\ stopCalls' > stopCalls /\ locationWatchId = 0 =>
          UNCHANGED <<locationWatchId, currentTripId, watches, watchCount,
                      clearWatchLog>>
     /\ clearWatchLog' # clearWatchLog =>
          /\ clearWatchLog' = Append(clearWatchLog, locationWatchId)
          /\ locationWatchId # 0
          /\ \A i \in 1..Len(clearWatchLog) :
               clearWatchLog[i] # locationWatchId
     /\ monCancels' > monCancels /\ monTimer = "cleared" =>
          UNCHANGED <<monTimer, ticksIssued, tickState, arrivals,
                      lateTicks>>]_vars
C16_Witness ==
  /\ stopCalls >= 2 /\ clearWatchLog = <<1>> /\ locationWatchId = 0
  /\ monCancels >= 2 /\ arrivals # <<>> /\ monTimer = "cleared"

\* C17: the publisher issues exactly one write attempt per received fix:
\* every fix the position source delivered was passed to onUpdate once, has
\* at most one upsert issued for it, and has exactly one once its
\* broadcastLocation call has ended; a pending or failed write never blocks
\* the stream, so while a watch is active the next fix can be delivered.
Attempts(i) == Cardinality({j \in 1..Len(writes) : writes[j] = i})
C17_OneWritePerFix ==
  /\ \A i \in 1..fixes :
       /\ Cardinality({j \in 1..Len(delivered) : delivered[j] = i}) = 1
       /\ Attempts(i) <= 1
       /\ pub[i].pc \in {"done", "rejected"} => Attempts(i) = 1
  /\ watches # {} /\ fixes < MaxFixes =>
       ENABLED (\E w \in watches : PositionFix(w))

\* C18: broadcastLocation never rejects, whatever the outcomes of the
\* identity resolution and of the store write.
C18_PublishNeverRejects == \A i \in 1..fixes : pub[i].pc # "rejected"

\* C19: for one (subject, trip) pair the store applies location writes in
\* the order the fixes were received: a write of an older fix is never
\* applied after a write of a newer fix.
C19_WritesInFixOrder ==
  \A a, b \in 1..Len(applied) :
    a < b /\ applied[a].user = applied[b].user =>
      applied[a].fix < applied[b].fix

\* C20 (as claimed): the status of a trip changes only along the edges
\* waiting -> arriving -> picked_up -> in_progress -> completed, or to
\* cancelled from one of the four non-terminal statuses; a completed or
\* cancelled trip never changes to a different status.
Edges ==
  {<<"waiting", "arriving">>, <<"arriving", "picked_up">>,
   <<"picked_up", "in_progress">>, <<"in_progress", "completed">>}
    \cup {<<s, "cancelled">> :
            s \in {"waiting", "arriving", "picked_up", "in_progress"}}
C20_StatusFollowsEdges ==
  [][tripStatus' # tripStatus => <<tripStatus, tripStatus'>> \in Edges]_vars

\* C20 (amended): the status of a trip changes only in the step in which an
\* updateTripStatus write succeeds (the call returns true), and it becomes
\* the status that call requested, whatever the status was: the transition
\* is not validated.
C20_StatusChangesOnlyByWrite ==
  [][/\ tripStatus' # tripStatus =>
          utsPc = "update" /\ utsRet' = "true" /\ tripStatus' = utsReq
     /\ utsPc = "update" /\ utsRet' = "true" => tripStatus' = utsReq]_vars
C20_Witness ==
  /\ utsPrev = "completed" /\ tripStatus = "waiting"
  /\ utsRet = "true" /\ utsPc = "idle"

\* C21: updateTripStatus does not validate the transition: whenever the
\* store update of an invocation succeeds the invocation returns true and the
\* trip has the requested status, whatever status it had, completed and
\* cancelled included.
C21_NoTransitionValidation ==
  [][utsPc = "update" /\ utsStore' = "ok" =>
       utsRet' = "true" /\ tripStatus' = utsReq]_vars
C21_Witness ==
  /\ utsCount = 5 /\ utsPc = "idle" /\ utsRet = "true"
  /\ statusLog =
       <<"waiting", "arriving", "picked_up", "in_progress", "completed">>

\* C22: an invocation of updateTripStatus whose store update reports an
\* error or raises returns false (it returns true or false, it never
\* throws) and leaves the status as it was; it returns true only when the
\* update completed without error; each invocation issues at most one store
\* update and none is issued when an invocation ends.
C22_FalseOnStoreFailure ==
  [][/\ utsPc = "update" =>
          /\ utsRet' \in {"true", "false"}
          /\ utsStore' \in {"error", "raise"} =>
               utsRet' = "false" /\ tripStatus' = tripStatus
          /\ utsWrites' = utsWrites
     /\ utsRet' = "true" => utsStore' = "ok"
     /\ utsWrites' # utsWrites =>
          utsWrites' = utsWrites + 1 /\ utsCount' = utsCount + 1]_vars
C22_Witness ==
  /\ utsStore = "raise" /\ utsRet = "false" /\ utsPc = "idle"
  /\ utsWrites = 2 /\ utsCount = 2 /\ Len(statusLog) = 0

\* C23: a startLocationTracking call on a platform without
\* navigator.geolocation returns false (it does not throw), registers no
\* watch and leaves currentTripId and locationWatchId as they were.
C23_UnsupportedStartNoOp ==
  [][startCalls' > startCalls /\ startRet' # "true" =>
       /\ startRet' = "false"
       /\ UNCHANGED <<locationWatchId, currentTripId, watches, watchCount,
                      watchTrip>>]_vars
C23_Witness ==
  /\ startRet = "false" /\ startCalls = 1
  /\ watches = {} /\ locationWatchId = 0 /\ currentTripId = NULL

\* C24: isWithinGeofence(point, center, radius) is true exactly when the
\* great-circle distance from point to center is at most radius, the boundary
\* included: it is true for point = center with any radius >= 0, and with
\* radius 0 it is true only when point = center.
C24_GeofenceInclusive ==
  \A i \in 1..Len(geoCall) :
    LET c == geoCall[i] IN
    c.fn = "isWithinGeofence" =>
      /\ c.ret = (Dist(c.location, c.center) <= c.radius)
      /\ c.location = c.center /\ c.radius >= 0 => c.ret
      /\ c.radius = 0 /\ c.ret => c.location = c.center

\* a call whose point lies exactly on the boundary of the fence
C24_Witness ==
  /\ geoCall # <<>> /\ geoCall[1].fn = "isWithinGeofence"
  /\ geoCall[1].location # geoCall[1].center
  /\ Dist(geoCall[1].location, geoCall[1].center) = geoCall[1].radius
  /\ geoCall[1].ret


\* C25: calculateETA with a current speed that is not greater than 0 uses the
\* default cruise speed 13.89 m/s: the returned duration is
\* round(distance / 13.89), the halves rounded up, so a distance of 13,890 m
\* gives a duration of 1000 s.
C25_DefaultSpeed ==
  \A i \in 1..Len(geoCall) :
    LET c == geoCall[i] IN
    c.fn = "calculateETA" /\ c.currentSpeed <= 0 =>
      /\ 2 * (10 * c.gap - 1389 * c.ret.duration) < 1389
      /\ 2 * (10 * c.gap - 1389 * c.ret.duration) >= -1389
      /\ c.gap = 138900 => c.ret.duration = 1000

C25_Witness ==
  /\ geoCall # <<>> /\ geoCall[1].fn = "calculateETA"
  /\ geoCall[1].currentSpeed = 0 /\ geoCall[1].gap = 138900
  /\ geoCall[1].ret.duration = 1000 /\ geoCall[1].ret.distance = 13890

\* C26 (as claimed): calculateETA with a current speed greater than 0 uses
\* that speed itself, in metres per second, as the effective speed: the
\* returned duration is round(distance / currentSpeed) seconds and the
\* returned distance is the distance rounded to the nearest metre.
C26_SpeedTakenAsIs ==
  \A i \in 1..Len(geoCall) :
    LET c == geoCall[i] IN
    c.fn = "calculateETA" /\ c.currentSpeed > 0 =>
      /\ c.ret.duration = Round(c.gap, c.currentSpeed)
      /\ c.ret.distance = Round(c.gap, 10)

\* C27: the great-circle distance computed by the service is symmetric and
\* zero on equal points: a call with the two points exchanged returns the same
\* distance (calculateETA) and the same answer (isWithinGeofence), and a call
\* on two equal points sees distance 0.
C27_DistanceSymmetric ==
  \A i \in 1..Len(geoCall) :
    LET c == geoCall[i] IN
    /\ c.fn = "calculateETA" /\ c.points # <<>> =>
         /\ c.ret.distance
              = CalculateETA(c.points[2], c.points[1], c.currentSpeed).distance
         /\ c.gap = 10 * Dist(c.points[2], c.points[1])
         /\ c.points[1] = c.points[2] => c.ret.distance = 0 /\ c.gap = 0
    /\ c.fn = "isWithinGeofence" =>
         /\ c.ret = IsWithinGeofence(c.center, c.location, c.radius)
         /\ c.location = c.center /\ c.radius = 0 => c.ret

\* two points on different latitudes and different longitudes
C27_Witness ==
  /\ geoCall # <<>> /\ geoCall[1].fn = "calculateETA"
  /\ geoCall[1].points # <<>>
  /\ geoCall[1].points[1].lat = 0 /\ geoCall[1].points[2].lat = 60
  /\ geoCall[1].points[1].lng # geoCall[1].points[2].lng
  /\ geoCall[1].ret.distance > 0


\* C28: if a monitorPickupZone watch is never cancelled and from some tick on
\* the store answers with a newest sample inside the radius, then onArrival is
\* eventually invoked, however many earlier ticks failed, returned no sample
\* or returned a sample outside the radius (the timer firing fairly).
C28_EventuallyArrives ==
  (/\ <>(monTimer = "active")
   /\ [](monCancels = 0)
   /\ \E k \in 1..MaxTicks :
        [](\A t \in k..MaxTicks :
             tickState[t] \in {Unissued, Pending} \/ Arrived(tickState[t])))
    => <>(arrivals # <<>>)

C28_Witness ==
  /\ tickState[1].kind = "error"
  /\ tickState[2].kind = "row" /\ ~Arrived(tickState[2])
  /\ Arrived(tickState[3])
  /\ arrivals = <<3>> /\ monCancels = 0 /\ monTimer = "cleared"


\* C29 (as claimed): the capture timestamps of the samples one publisher
\* writes for one (subject, trip) are non-decreasing in the order in which the
\* fixes were received, also when several publishes are pending together.
C29_TimestampsInFixOrder ==
  \A i, j \in 1..fixes :
    /\ i < j
    /\ pub[i].pc \in {"upsert", "done"} /\ pub[j].pc \in {"upsert", "done"}
    /\ pub[i].user = pub[j].user /\ pub[i].trip = pub[j].trip
    => pub[i].ts <= pub[j].ts

\* C30 (as claimed): every location sample written to the store carries the
\* trip id of the stream that produced it and the id of the resolved caller
\* identity as its subject; no sample is written with an empty subject id.
C30_SampleHasSubject ==
  /\ \A i \in 1..fixes :
       pub[i].pc \in {"upsert", "done"} =>
         pub[i].trip = watchTrip[pub[i].watch] /\ pub[i].user \in Users
  /\ \A a \in 1..Len(applied) :
       applied[a].trip = watchTrip[pub[applied[a].fix].watch]
         /\ applied[a].user \in Users


\* C31: a second startLocationTracking call made without a stop in between
\* does not stop the prior stream: the earlier watch stays registered and
\* keeps delivering fixes that are published under its own trip id, while
\* currentTripId and locationWatchId refer to the later call only, so that a
\* following stopLocationTracking clears the later watch and no other.
C31_SecondStartLeavesPrior ==
  [][/\ startCalls' > startCalls /\ startRet' = "true" =>
          /\ watches \subseteq watches'
          /\ locationWatchId' \notin watches /\ locationWatchId' \in watches'
          /\ currentTripId' = watchTrip'[locationWatchId']
          /\ \A w \in watches : watchTrip'[w] = watchTrip[w]
     /\ stopCalls' > stopCalls =>
          /\ watches' = watches \ {locationWatchId}
          /\ locationWatchId' = 0 /\ currentTripId' = NULL
     /\ \A w \in watches :
          fixes < MaxFixes => ENABLED PositionFix(w)
     /\ \A i \in 1..MaxFixes :
          pub[i].pc = "none" /\ pub'[i].pc # "none" =>
            pub'[i].watch \in watches /\ pub'[i].trip = watchTrip[pub'[i].watch]]_vars

\* two streams started for two trips, one stop: the later watch is cleared,
\* the earlier one is still registered and its fix is being written under the
\* earlier trip
C31_Witness ==
  /\ startCalls = 2 /\ stopCalls = 1 /\ clearWatchLog = <<2>>
  /\ watches = {1} /\ locationWatchId = 0 /\ currentTripId = NULL
  /\ watchTrip = <<"t1", "t2">>
  /\ fixes = 1 /\ pub[1].watch = 1 /\ pub[1].pc = "upsert" /\ pub[1].trip = "t1"
  /\ ENABLED PositionFix(1)


\* C32 (as claimed): while the subscription to one subject's live location
\* in a trip is active, its handler fires exactly once for every change of
\* that subject's sample in the store, the first write that creates the
\* sample included, and it receives the values of that change.
C32_HandlerFiresOnEveryChange ==
  \A n \in 1..Len(changeLog) :
    LET c == changeLog[n] IN
    c.trip = FeedTrip /\ c.user = Driver /\ c.driverJoined =>
      /\ Cardinality({j \in 1..Len(driverCalls) : driverCalls[j].ver = c.ver}) = 1
      /\ \A j \in 1..Len(driverCalls) :
           driverCalls[j].ver = c.ver =>
             driverCalls[j].trip = c.trip /\ driverCalls[j].user = c.user

\* C33: for the all-subjects-of-a-trip subscription every change event of any
\* kind on the trip's locations starts one re-query of the full current set,
\* and the handler receives the result of that query, never the payload of
\* the event.
C33_RequeryOnAnyChange ==
  [][/\ storeVer' > storeVer =>
          LET c == changeLog'[storeVer'] IN
          /\ requeries'[storeVer'].pc = "query"
               <=> (c.trip = FeedTrip /\ Joined(PassengersKey(FeedTrip)))
          /\ \A i \in 1..MaxChanges : i # storeVer' => requeries'[i] = requeries[i]
          /\ snapshots' = snapshots
     /\ \A i \in 1..MaxChanges :
          requeries[i].pc = "query" /\ requeries'[i].pc = "read"
            /\ requeries'[i].data = "ok" =>
              /\ requeries'[i].rows = RowsOfTrip(liveRows, FeedTrip)
              /\ requeries'[i].at = storeVer
     /\ snapshots' # snapshots =>
          \E i \in 1..MaxChanges :
            /\ requeries[i].pc = "read" /\ requeries[i].data = "ok"
            /\ requeries'[i].pc = "done"
            /\ snapshots' = Append(snapshots,
                                   [query |-> i, at |-> requeries[i].at,
                                    rows |-> requeries[i].rows])]_vars

\* the event of the driver's first write started a re-query that the store ran
\* after a passenger's write: the handler got both rows
C33_Witness ==
  /\ Len(snapshots) = 1 /\ snapshots[1].query = 1 /\ snapshots[1].at = 2
  /\ snapshots[1].rows[Driver] = 1 /\ snapshots[1].rows["u1"] = 2
  /\ changeLog[1].user = Driver /\ changeLog[1].type = "INSERT"
  /\ requeries[2].pc = "query"

\* C34 (as claimed): the snapshots delivered by the all-subjects-of-a-trip
\* subscription are in store order: with two concurrent re-queries the handler
\* never receives the older snapshot after the newer one.
C34_SnapshotsInStoreOrder ==
  \A a, b \in 1..Len(snapshots) :
    a < b => snapshots[a].at <= snapshots[b].at


\* C35 (as claimed): once the cancel function returned by monitorPickupZone
\* has been called, onArrival is never invoked afterwards, also when the query
\* of a tick was still in flight at the moment of the cancel.
C35_NoArrivalAfterCancel ==
  [][monCancels > 0 => arrivals' = arrivals]_vars

\* C36 (as claimed): monitorPickupZone signals arrival on the driver's
\* position only: onArrival is not invoked when the newest sample of the trip
\* inside the radius belongs to a passenger while the driver's latest position
\* is outside the radius.
C36_ArrivalOnDriverOnly ==
  \A i \in 1..Len(arrivals) :
    LET r == tickState[arrivals[i]] IN
    ~(/\ r.user # Driver
      /\ ~IsWithinGeofence(r.driverAt, PickupLocation, RadiusMeters))

\* C37 (as claimed): after stopLocationTracking has returned, with a single
\* stream started, onUpdate is no longer invoked and no further location write
\* for the trip is issued to the store, not even by a publish that was pending
\* when stop was called.
C37_NoWriteAfterStop ==
  [][watchCount = 1 /\ stopCalls > 0 /\ watches = {} =>
       delivered' = delivered /\ writes' = writes]_vars


\* C38: debounce(fn, wait): fn is never invoked while calls keep arriving
\* less than wait apart; after the last call of a burst fn is invoked exactly
\* once, wait after that last call, with the arguments of that last call.
C38_DebounceTrailingOnce ==
  [][/\ dbCount' > dbCount => dbCalls' = dbCalls
     /\ dbCalls' # dbCalls =>
          /\ dbCalls' = Append(dbCalls, [at |-> dbLast.at + Wait, args |-> dbLast.args])
          /\ now = dbLast.at + Wait
          /\ dbTimeout' = 0
     /\ dbTimeout # 0 => dbCount > 0 /\ dbTimeout = dbLast.at + Wait
     /\ dbTimeout # 0 /\ now = dbTimeout => ENABLED DebounceLater
     /\ dbTimeout = 0 /\ dbCount > 0 =>
          /\ dbCalls # <<>>
          /\ dbCalls[Len(dbCalls)] = [at |-> dbLast.at + Wait, args |-> dbLast.args]
     /\ Len(dbCalls) <= dbCount
     /\ \A j, k \in 1..Len(dbCalls) : j < k => dbCalls[j].at + Wait <= dbCalls[k].at]_vars

\* three calls, each less than wait after the one before, and one invocation,
\* wait after the third, with the third call's arguments
C38_Witness ==
  /\ dbCount = 3 /\ dbLast = [at |-> 2, args |-> "b"]
  /\ dbCalls = <<[at |-> 4, args |-> "b"]>> /\ dbTimeout = 0

\* C39: throttle(fn, limit): a call made outside a throttle window invokes fn
\* at once with its arguments and opens a window of limit; every call made
\* inside the window is dropped, neither invoked nor deferred; hence fn is
\* invoked at most once per window and the first call after the window
\* invokes fn again.
C39_ThrottleLeadingOnly ==
  [][/\ Len(thLog') > Len(thLog) =>
          IF ~inThrottle
          THEN /\ thCalls' = Append(thCalls, [at |-> now, args |-> thLog'[Len(thLog')].args])
               /\ inThrottle' /\ thTimer' = now + Limit
          ELSE thCalls' = thCalls /\ inThrottle' /\ thTimer' = thTimer
     /\ thCalls' # thCalls => Len(thLog') > Len(thLog)
     /\ inThrottle <=> thTimer # 0
     /\ inThrottle =>
          thCalls # <<>> /\ thTimer = thCalls[Len(thCalls)].at + Limit
     /\ inThrottle /\ ~inThrottle' => now = thTimer
     /\ \A j, k \in 1..Len(thCalls) : j < k => thCalls[j].at + Limit <= thCalls[k].at]_vars

\* a call invoked, a call inside its window dropped, and the first call after
\* the window invoked again
C39_Witness ==
  /\ Len(thLog) = 3
  /\ thLog[2].at = 1 /\ thLog[2].inThrottle /\ thLog[2].args = "b"
  /\ thLog[3].at = 2 /\ ~thLog[3].inThrottle
  /\ thCalls = <<[at |-> 0, args |-> "a"], [at |-> 2, args |-> "a"]>>


\* sum of seats_requested over the bookings of trip t
RECURSIVE SeatsBooked(_, _)
SeatsBooked(bs, t) ==
  IF bs = <<>> THEN 0
  ELSE (IF Head(bs).trip_id = t THEN Head(bs).seats_requested ELSE 0)
         + SeatsBooked(Tail(bs), t)

\* C40: for every trip of MockDataStore and every sequence of createBooking
\* calls, available_seats never becomes negative and available_seats plus
\* the sum of seats_requested over the trip's bookings stays constant; a call
\* rejected with 'Trip not found' or 'Not enough available seats' adds no
\* booking and leaves the trips' seats and the booking id counter unchanged.
C40_SeatsConserved ==
  [][/\ \A t \in MockTripIds :
          /\ mockTrips'[t] >= 0
          /\ mockTrips'[t] + SeatsBooked(mockBookings', t) = InitialSeats[t]
     /\ Len(cbLog') > Len(cbLog) /\ cbLog'[Len(cbLog')].ret # "ok" =>
          /\ mockBookings' = mockBookings
          /\ mockTrips' = mockTrips
          /\ nextBookingId' = nextBookingId
     /\ Len(cbLog') > Len(cbLog) /\ cbLog'[Len(cbLog')].ret = "ok" =>
          /\ Len(mockBookings') = Len(mockBookings) + 1
          /\ nextBookingId' = nextBookingId + 1]_vars

\* the two seats of trip-1 are booked, a further request for it is refused
\* and a request for an unknown trip is refused
C40_Witness ==
  /\ Len(cbLog) = 3
  /\ cbLog[1] = [tripId |-> "trip-1", seats |-> 2, ret |-> "ok"]
  /\ cbLog[2] = [tripId |-> "trip-1", seats |-> 1,
                 ret |-> "Not enough available seats"]
  /\ cbLog[3].ret = "Trip not found"
  /\ mockTrips["trip-1"] = 0 /\ Len(mockBookings) = 1 /\ nextBookingId = 2

====
